---- MODULE Spec2Model ----
(***************************************************************************)
(* Model of the P2P server of src/src/p2p/server.rs: the peer registry,    *)
(* the main thread (seed dials, accept loop, handshake handling, dials to  *)
(* gossiped peers) and the listener threads that remove connections.       *)
(***************************************************************************)
EXTENDS Integers, Sequences, FiniteSets, TLC

\* ---------------------------------------------------------------- bounds
\* longest peer list carried by a received handshake (at most MAX_LEN)
MaxGossip == 1
\* P2pServer.max_peers, the argument of P2pServer::new
max_peers == 1
\* deepest nesting of dial loops in which a received handshake may still
\* carry peers
MaxStack == 1
\* the reads of data from registered peers, each followed by a broadcast
MaxBroadcasts == 2
\* the calls of send_bytes, read_packet and close made on one Connection
MaxCalls == 3

\* ------------------------------------------------------------- constants
\* P2pServer.peer_id, the server's own id
SelfPeerId == 0
\* config::NETWORK_ID
NETWORK_ID == "local"
\* config::SEED_NODES, as the strings the main thread parses
SEED_NODES == << <<"addr", 1>>, <<"addr", 2>> >>

\* the peer ids remotes announce, besides the server's own
RemotePeerIds == {1, 2, 3}
PeerIds == {SelfPeerId} \cup RemotePeerIds
\* the socket addresses of the model
Addrs == {1, 2}
NetworkIds == {NETWORK_ID, "other"}

\* the textual peers of a handshake: well-formed socket addresses and
\* a string that does not parse
PeerStrings == {<<"addr", a>> : a \in Addrs} \cup {<<"bad", 0>>}

\* str.parse::<SocketAddr>()
ParseAddr(s) ==
    IF s[1] = "addr" /\ s[2] \in Addrs
    THEN [ok |-> TRUE, addr |-> s[2]]
    ELSE [ok |-> FALSE, addr |-> 0]

SeqsUpTo(S, n) == UNION {[1..k -> S] : k \in 0..n}

\* the Handshake values a remote can send (the fields verify_handshake reads)
Handshakes ==
    [network_id : NetworkIds, peer_id : PeerIds, peers : SeqsUpTo(PeerStrings, MaxGossip)]

VARIABLES
    multi_threaded,   \* P2pServer.multi_threaded
    connections,      \* P2pServer.connections: peer_id -> Connection
    channels,         \* P2pServer.channels: key -> messages not yet received
    mux_conns,        \* single thread listener: its local connections map (keys)
    pc,               \* main thread: where it is
    seed_idx,         \* main thread: next entry of SEED_NODES
    cur,              \* main thread: the connection handle_new_connection works on
    stack,            \* main thread: peers still to dial of the suspended invocations
    listening,        \* main thread: the listener is bound, the accept loop runs
    ret,              \* main thread: how the last attempt ended, seen by its caller
    poisoned,         \* the RwLock around the server is poisoned
    workers,          \* multi threaded: the peer ids whose thread serves a
                      \* registered connection (it owns the Receiver)
    exiting,          \* multi threaded: peer id -> the thread that still runs
                      \* after its connection was removed: the closed flag
                      \* of its connection and the messages of its Receiver
    closed_conns,     \* the peer ids whose Connection, the last one that was
                      \* registered with the id, has its closed flag set
    bcast,            \* broadcast_bytes in progress: thread -> bytes, peers to do
    nbcast,           \* the buffers read from peers so far
    submitted,        \* peer_id -> the bytes given to send_to_peer, in order
    written,          \* peer_id -> the bytes written to its socket, in order
    send_failed,      \* the peer ids for which connection.send_bytes failed
    remote_closed,    \* the registered peers whose socket the remote side closed
    called,           \* the last direct call of remove_connection and its result
    closed,           \* Connection.closed
    mailbox,          \* Connection.rx: the messages sent through tx
    inbox,            \* the bytes the remote side sent that no read has taken yet
    socket,           \* Connection.stream: the state of the socket
    stream_lock,      \* Connection.stream: the task holding the mutex
    tx_lock,          \* Connection.tx: the task holding the mutex
    bytes_in,         \* Connection.bytes_in
    bytes_out,        \* Connection.bytes_out
    tasks,            \* the tasks that call the Connection: where each is
    ncalls,           \* the calls made on the Connection so far
    first_close,      \* the result of the first close() that returned
    state,            \* Connection.state
    reader,           \* a Reader: its bytes and its cursor (total)
    last_read,        \* the last read made on the Reader and its outcome
    decoding,         \* the decoder that reads from the Reader: where it is
    codec             \* a Handshake value and the bytes given to the decoders

\* the server, the dispatch of bytes to peers, one Connection, the codec
server_vars == <<multi_threaded, connections, channels, mux_conns, pc, seed_idx, cur, stack, listening, ret, poisoned, workers, exiting, closed_conns>>
dispatch_vars == <<bcast, nbcast, submitted, written, send_failed, remote_closed>>
conn_vars == <<closed, mailbox, inbox, socket, stream_lock, tx_lock, bytes_in, bytes_out, tasks,
               ncalls, first_close, state>>

codec_vars == <<reader, last_read, decoding, codec>>

vars == <<server_vars, dispatch_vars, called, conn_vars, codec_vars>>

\* cur: the stream's remote address and direction, the handshakes written
\* to it, whether it was read from, and once verify_handshake has passed
\* the handshake's network id and peer id, whether all its peers parsed,
\* and the peers kept for dialing; silent: the remote neither sends a byte
\* nor closes the stream
NoConn == [addr |-> 0, out |-> FALSE, sent |-> 0, read |-> FALSE,
           network_id |-> "none", peer_id |-> 0, parse_ok |-> TRUE,
           peers |-> <<>>, silent |-> FALSE]
\* ret: the outcome of an attempt that ended without a registration, what
\* became of its stream, and what the log shows of the handshake it read
NoRet == [outcome |-> "none", stream |-> "none", read |-> FALSE, sent |-> 0,
          out |-> FALSE, network_id |-> "none", peer_id |-> 0, parse_ok |-> TRUE]

\* Connection::new: the state a connection is created with
Connection_new_state == "Pending"

\* ----------------------------------------------------- registry queries
get_peer_count == Cardinality(DOMAIN connections)

\* accepting while the registry is full
accept_new_connections_AtLimit == get_peer_count <= max_peers

accept_new_connections == get_peer_count < max_peers

\* forgetting the server's own id
is_connected_to_NoSelf(peer_id) == peer_id \in DOMAIN connections

\* forgetting the registry
is_connected_to_OnlySelf(peer_id) == SelfPeerId = peer_id

is_connected_to(peer_id) == SelfPeerId = peer_id \/ peer_id \in DOMAIN connections

is_connected_to_addr(peer_addr) ==
    \E p \in DOMAIN connections : connections[p].addr = peer_addr

\* max_peers - connections.len() on usize: below zero the subtraction
\* panics when overflow checks are on and wraps to 2^64 - k otherwise
SlotsUnderflow == get_peer_count > max_peers

Min(a, b) == IF a < b THEN a ELSE b

\* peers.into_iter().take(get_slots_available()): a wrapped count is larger
\* than any Vec, so take keeps the whole list
TakeSlots(peers) ==
    IF SlotsUnderflow THEN peers
    ELSE SubSeq(peers, 1, Min(Len(peers), max_peers - get_peer_count))

\* the for loop of verify_handshake over the parsed peers
RECURSIVE FilterPeers(_)
FilterPeers(strs) ==
    IF strs = <<>> THEN <<>>
    ELSE LET a == ParseAddr(Head(strs)).addr
         IN  IF is_connected_to_addr(a) THEN FilterPeers(Tail(strs))
             ELSE <<a>> \o FilterPeers(Tail(strs))

AllParse(strs) == \A i \in 1..Len(strs) : ParseAddr(strs[i]).ok

\* verify_handshake without its network id check
verify_handshake_NoNetworkCheck(addr, hs, out, overflow_checks) ==
    IF is_connected_to(hs.peer_id)
    THEN [err |-> "PeerIdAlreadyUsed", stream |-> "shutdown", peers |-> <<>>]
    ELSE IF ~AllParse(hs.peers)
    THEN [err |-> "InvalidPeerAddress", stream |-> "shutdown", peers |-> <<>>]
    ELSE IF SlotsUnderflow /\ overflow_checks
    THEN [err |-> "PanicUnderflow", stream |-> "dropped", peers |-> <<>>]
    ELSE [err |-> "Ok", stream |-> "open", peers |-> TakeSlots(FilterPeers(hs.peers))]

\* verify_handshake keeping a peer that does not parse instead of failing
verify_handshake_NoParseCheck(addr, hs, out, overflow_checks) ==
    IF hs.network_id # NETWORK_ID
    THEN [err |-> "InvalidNetworkID", stream |-> "dropped", peers |-> <<>>]
    ELSE IF is_connected_to(hs.peer_id)
    THEN [err |-> "PeerIdAlreadyUsed", stream |-> "shutdown", peers |-> <<>>]
    ELSE IF SlotsUnderflow /\ overflow_checks
    THEN [err |-> "PanicUnderflow", stream |-> "dropped", peers |-> <<>>]
    ELSE [err |-> "Ok", stream |-> "open", peers |-> TakeSlots(FilterPeers(hs.peers))]

\* verify_handshake(addr, stream, handshake, out); overflow_checks is the
\* build's choice for the usize subtraction
verify_handshake(addr, hs, out, overflow_checks) ==
    IF hs.network_id # NETWORK_ID
    THEN [err |-> "InvalidNetworkID", stream |-> "dropped", peers |-> <<>>]
    ELSE IF is_connected_to(hs.peer_id)
    THEN [err |-> "PeerIdAlreadyUsed", stream |-> "shutdown", peers |-> <<>>]
    ELSE IF ~AllParse(hs.peers)
    THEN [err |-> "InvalidPeerAddress", stream |-> "shutdown", peers |-> <<>>]
    ELSE IF SlotsUnderflow /\ overflow_checks
    THEN [err |-> "PanicUnderflow", stream |-> "dropped", peers |-> <<>>]
    ELSE [err |-> "Ok", stream |-> "open", peers |-> TakeSlots(FilterPeers(hs.peers))]

\* ------------------------------------------------------ registry updates
Without(f, k) == [x \in DOMAIN f \ {k} |-> f[x]]

\* P2pServer::add_connection, followed in single thread mode by the
\* AddConnection message that handle_new_connection sends to the listener
AddMessage(peer_id) == [type |-> "AddConnection", peer_id |-> peer_id]
RemoveMessage(peer_id) == [type |-> "RemoveConnection", peer_id |-> peer_id]
\* Message::Exit
ExitMessage == [type |-> "Exit"]

\* insert panics on a peer id that is present; in single thread mode the
\* channel of the listener must exist
AddPanics(peer_id) ==
    \/ peer_id \in DOMAIN connections
    \/ ~multi_threaded /\ SelfPeerId \notin DOMAIN channels

\* a registration that creates no channel for the thread of the peer
add_connection_NoChannel(conn) ==
    /\ connections' = (conn.peer_id :> conn) @@ connections
    /\ closed_conns' = closed_conns \ {conn.peer_id}
    /\ channels' =
         IF multi_threaded
         THEN channels
         ELSE [channels EXCEPT ![SelfPeerId] = Append(@, AddMessage(conn.peer_id))]

\* the Connection that is inserted was made by Connection::new in
\* verify_handshake: its closed flag is not set
add_connection(conn) ==
    /\ connections' = (conn.peer_id :> conn) @@ connections
    /\ closed_conns' = closed_conns \ {conn.peer_id}
    /\ channels' =
         IF multi_threaded
         THEN (conn.peer_id :> <<>>) @@ channels
         ELSE [channels EXCEPT ![SelfPeerId] = Append(@, AddMessage(conn.peer_id))]

\* Connection::close as remove_connection calls it: the closed flag is
\* set (the result of the shutdown is only printed)
close(peer_id) == closed_conns \cup {peer_id}

\* the thread of a peer after remove_connection took its connection: it
\* holds the connection, closed or not, and the Receiver of the channel,
\* on which Exit was sent after the messages still waiting
Removed(is_closed, queue) ==
    [is_closed |-> is_closed, receiver |-> Append(queue, ExitMessage)]

\* telling the listener of a removal that did not happen
remove_connection_Notifies(peer_id) ==
    /\ connections' = Without(connections, peer_id)
    /\ closed_conns' = close(peer_id)
    /\ channels' =
         IF multi_threaded
         THEN Without(channels, peer_id)
         ELSE [channels EXCEPT ![SelfPeerId] = Append(@, RemoveMessage(peer_id))]
    /\ workers' = workers \ {peer_id}
    /\ exiting' =
         IF multi_threaded /\ peer_id \in workers /\ peer_id \in DOMAIN channels
         THEN (peer_id :> Removed(peer_id \in closed_conns', channels[peer_id]))
              @@ exiting
         ELSE exiting

\* the value remove_connection returns: whether the registry held the id
remove_connection_returns(peer_id) == peer_id \in DOMAIN connections

\* P2pServer::remove_connection, the Some arm: the connection leaves the
\* registry and is closed when it is not closed yet. Multi threaded: its
\* channel is dropped after Exit was sent on it; the thread of the peer,
\* which owns the Receiver, still runs when the call returns (the send
\* fails when that thread has returned before). Single thread: the
\* listener is told through its channel. The None arm changes nothing
remove_connection(peer_id) ==
    IF peer_id \in DOMAIN connections
    THEN /\ connections' = Without(connections, peer_id)
         /\ closed_conns' = IF peer_id \in closed_conns THEN closed_conns
                            ELSE close(peer_id)
         /\ channels' =
              IF multi_threaded
              THEN Without(channels, peer_id)
              ELSE [channels EXCEPT ![SelfPeerId] = Append(@, RemoveMessage(peer_id))]
         /\ workers' = workers \ {peer_id}
         /\ exiting' =
              IF multi_threaded /\ peer_id \in workers /\ peer_id \in DOMAIN channels
              THEN (peer_id :> Removed(peer_id \in closed_conns', channels[peer_id]))
                   @@ exiting
              ELSE exiting
    ELSE UNCHANGED <<connections, channels, closed_conns, workers, exiting>>

\* ------------------------------------------------------------ main thread
\* where the main thread goes on when an attempt has ended: the dial loop
\* of the suspended invocation, else the seed loop or the accept loop
Resume(stk) ==
    IF stk # <<>> THEN "dialing"
    ELSE IF listening THEN "accept" ELSE "seeds"

Ended(outcome, stream, c) ==
    [outcome |-> outcome, stream |-> stream, read |-> c.read, sent |-> c.sent,
     out |-> c.out, network_id |-> c.network_id, peer_id |-> c.peer_id,
     parse_ok |-> c.parse_ok]

\* P2pServer::connect_to_peer up to the call of handle_new_connection
ConnectToPeer(peer_addr) ==
    LET c == [NoConn EXCEPT !.addr = peer_addr, !.out = TRUE]
    IN  \/ /\ pc' = "ret"     \* TcpStream::connect fails: logged, Ok(())
           /\ ret' = Ended("ConnectFailed", "none", c)
           /\ cur' = NoConn
        \/ /\ pc' = "ret"     \* stream.write fails: Err(OnWrite)
           /\ ret' = Ended("OnWrite", "dropped", c)
           /\ cur' = NoConn
        \/ /\ pc' = "read"    \* own handshake written, wait for the reply
           /\ \E silent \in BOOLEAN : cur' = [c EXCEPT !.sent = 1, !.silent = silent]
           /\ ret' = NoRet

\* for peer in SEED_NODES
SeedDial ==
    /\ pc = "seeds"
    /\ seed_idx <= Len(SEED_NODES)
    /\ seed_idx' = seed_idx + 1
    /\ ParseAddr(SEED_NODES[seed_idx]).ok
    /\ ConnectToPeer(ParseAddr(SEED_NODES[seed_idx]).addr)
    /\ UNCHANGED <<multi_threaded, connections, channels, mux_conns, stack, listening, poisoned>>
    /\ UNCHANGED <<workers, exiting, closed_conns, dispatch_vars, called, conn_vars,
                   codec_vars>>

\* TcpListener::bind(...).unwrap()
Bind ==
    /\ pc = "seeds"
    /\ seed_idx > Len(SEED_NODES)
    /\ \/ pc' = "accept" /\ listening' = TRUE
       \/ pc' = "dead" /\ listening' = FALSE
    /\ UNCHANGED <<multi_threaded, connections, channels, mux_conns, seed_idx, cur, stack, ret, poisoned>>
    /\ UNCHANGED <<workers, exiting, closed_conns, dispatch_vars, called, conn_vars,
                   codec_vars>>

\* the remote addresses an incoming stream can have: any, also the one
\* of a registered connection (a remote that reset its socket connects
\* again from the same address while its old entry is still registered)
InboundAddrs == Addrs

\* for stream in listener.incoming(), the Ok(stream) arm
AcceptInbound ==
    /\ pc = "accept"
    /\ \E a \in InboundAddrs :
         LET c == [NoConn EXCEPT !.addr = a]
         IN  IF ~accept_new_connections
             THEN /\ pc' = "ret"
                  /\ ret' = Ended("MaxPeers", "shutdown", c)
                  /\ cur' = NoConn
             ELSE /\ pc' = "read"
                  /\ \E silent \in BOOLEAN : cur' = [c EXCEPT !.silent = silent]
                  /\ ret' = NoRet
    /\ UNCHANGED <<multi_threaded, connections, channels, mux_conns, seed_idx, stack, listening, poisoned>>
    /\ UNCHANGED <<workers, exiting, closed_conns, dispatch_vars, called, conn_vars,
                   codec_vars>>

\* the handshakes the model lets a remote send: no peers once the
\* nesting bound is reached
Receivable ==
    {hs \in Handshakes : Len(stack) >= MaxStack => hs.peers = <<>>}

\* the builds that differ on this call of verify_handshake: with and
\* without overflow checks when the subtraction goes below zero
Builds == IF SlotsUnderflow THEN BOOLEAN ELSE {FALSE}

\* going on after an InvalidNetworkID error
Passed_IgnoresNetworkError(r) == r.err \in {"Ok", "InvalidNetworkID"}

\* verify_handshake(...)?: only Ok goes on
Passed(r) == r.err = "Ok"

\* handle_new_connection up to the ? after verify_handshake:
\* stream.peer_addr(), stream.read(buffer), Handshake::from_bytes and,
\* under the read lock, verify_handshake. stream.read blocks, without a
\* deadline, until the remote sends, closes or the stream fails
\* (the bytes that make from_bytes return an error or panic are those of
\* Handshake_from_bytes)
ReadHandshake ==
    /\ pc = "read"
    /\ ~cur.silent
    /\ \/ /\ pc' = "ret"    \* peer_addr or read fails: logged, Ok(())
          /\ ret' = Ended("ReadError", "dropped", cur)
          /\ cur' = NoConn
       \/ /\ pc' = "ret"    \* from_bytes fails: Err
          /\ ret' = Ended("DecodeError", "dropped", [cur EXCEPT !.read = TRUE])
          /\ cur' = NoConn
       \/ /\ pc' = "dead"   \* from_bytes panics (String::from_utf8(..).unwrap(),
                            \* a slice past the end): no lock is held, the
                            \* panic ends the main thread
          /\ ret' = Ended("PanicFromBytes", "dropped", [cur EXCEPT !.read = TRUE])
          /\ cur' = NoConn
       \/ \E hs \in Receivable, overflow_checks \in Builds :
            LET r == verify_handshake(cur.addr, hs, cur.out, overflow_checks)
                c == [cur EXCEPT !.read = TRUE, !.network_id = hs.network_id,
                                 !.peer_id = hs.peer_id,
                                 !.parse_ok = AllParse(hs.peers)]
            IN  IF Passed(r)
                THEN /\ pc' = "verified"
                     /\ cur' = [c EXCEPT !.peers = r.peers]
                     /\ ret' = NoRet
                ELSE /\ pc' = IF r.err = "PanicUnderflow" THEN "dead" ELSE "ret"
                     /\ ret' = Ended(r.err, r.stream, c)
                     /\ cur' = NoConn
    /\ UNCHANGED <<multi_threaded, connections, channels, mux_conns, seed_idx,
                   stack, listening, poisoned>>
    /\ UNCHANGED <<workers, exiting, closed_conns, dispatch_vars, called, conn_vars,
                   codec_vars>>

\* replying on an outgoing connection too
ReplySent_Always(c) == c.sent + 1

\* if !out { connection.send_bytes(&handshake.to_bytes())? }: the handshakes
\* written to the stream once the reply is sent
ReplySent(c) == IF c.out THEN c.sent ELSE c.sent + 1

Push(stk, peers) == IF peers = <<>> THEN stk ELSE Append(stk, peers)

\* handle_new_connection after verify_handshake, on an incoming
\* connection: build_handshake under the read lock, which is released,
\* and connection.send_bytes(&handshake.to_bytes())?. The remote has the
\* reply while the connection is not registered yet
Reply ==
    /\ pc = "verified"
    /\ ~cur.out
    /\ \E send_ok \in BOOLEAN :
         IF send_ok
         THEN /\ pc' = "replied"
              /\ cur' = [cur EXCEPT !.sent = ReplySent(cur)]
              /\ UNCHANGED ret
         ELSE \* connection.send_bytes(...)? fails: Err
              /\ pc' = "ret"
              /\ ret' = Ended("SendError", "dropped", cur)
              /\ cur' = NoConn
    /\ UNCHANGED <<multi_threaded, connections, channels, mux_conns, seed_idx,
                   stack, listening, poisoned>>
    /\ UNCHANGED <<workers, exiting, closed_conns, dispatch_vars, called, conn_vars,
                   codec_vars>>

\* the main thread is about to register: an outgoing connection right
\* after verify_handshake, an incoming one after the reply
Registering == pc = "replied" \/ (pc = "verified" /\ cur.out)

\* handle_new_connection after the reply: set_blocking, then the wait for
\* the write lock and add_connection under it, then the dial loop over
\* the peers kept by verify_handshake
Register ==
    /\ Registering
    /\ \E blocking_ok \in BOOLEAN :
         LET sent == IF pc = "verified" THEN ReplySent(cur) ELSE cur.sent
             conn == [peer_id |-> cur.peer_id, addr |-> cur.addr, out |-> cur.out,
                      sent |-> sent, state |-> Connection_new_state]
         IN  IF ~blocking_ok
             THEN \* set_blocking fails: logged, the peers are dialed all the same
                  /\ stack' = Push(stack, cur.peers)
                  /\ pc' = Resume(stack')
                  /\ ret' = NoRet
                  /\ cur' = NoConn
                  /\ UNCHANGED <<connections, channels, poisoned, workers, exiting,
                                 closed_conns>>
             ELSE IF AddPanics(cur.peer_id)
             THEN \* panic with the write lock held, after connections.insert
                  /\ pc' = "dead"
                  /\ poisoned' = TRUE
                  /\ ret' = Ended(IF cur.peer_id \in DOMAIN connections
                                  THEN "PanicPeerIdUsed" ELSE "PanicNoChannel",
                                  "dropped", cur)
                  /\ cur' = NoConn
                  /\ connections' = (conn.peer_id :> conn) @@ connections
                  /\ closed_conns' = closed_conns \ {conn.peer_id}
                  /\ UNCHANGED <<channels, stack, workers, exiting>>
             ELSE /\ add_connection(conn)
                  \* multi threaded: the thread of the connection is spawned
                  /\ workers' = IF multi_threaded
                                THEN workers \cup {conn.peer_id} ELSE workers
                  /\ UNCHANGED exiting
                  /\ stack' = Push(stack, cur.peers)
                  /\ pc' = Resume(stack')
                  /\ ret' = NoRet
                  /\ cur' = NoConn
                  /\ UNCHANGED poisoned
    /\ UNCHANGED <<multi_threaded, mux_conns,
                   seed_idx, listening>>
    /\ UNCHANGED <<dispatch_vars, called, conn_vars, codec_vars>>

\* for peer in peers { connect_to_peer(...) } of the innermost invocation
GossipDial ==
    /\ pc = "dialing"
    /\ stack # <<>>
    /\ LET top == stack[Len(stack)]
           below == SubSeq(stack, 1, Len(stack) - 1)
       IN  /\ stack' = Push(below, Tail(top))
           /\ ConnectToPeer(Head(top))
    /\ UNCHANGED <<multi_threaded, connections, channels, mux_conns, seed_idx, listening, poisoned>>
    /\ UNCHANGED <<workers, exiting, closed_conns, dispatch_vars, called, conn_vars,
                   codec_vars>>

\* the caller logs the error, if any, and goes on with its loop
Return ==
    /\ pc = "ret"
    /\ pc' = Resume(stack)
    /\ ret' = NoRet
    /\ UNCHANGED <<multi_threaded, connections, channels, mux_conns, seed_idx, cur, stack, listening, poisoned>>
    /\ UNCHANGED <<workers, exiting, closed_conns, dispatch_vars, called, conn_vars,
                   codec_vars>>

\* -------------------------------------------------------- listener threads
\* start(): the channel of the single thread listener is created and the
\* listener spawned after the main thread has been spawned
StartListener ==
    /\ ~multi_threaded
    /\ ~poisoned
    /\ SelfPeerId \notin DOMAIN channels
    /\ channels' = (SelfPeerId :> <<>>) @@ channels
    /\ UNCHANGED <<multi_threaded, connections, mux_conns, pc, seed_idx, cur, stack, listening, ret, poisoned>>
    /\ UNCHANGED <<workers, exiting, closed_conns, dispatch_vars, called, conn_vars,
                   codec_vars>>

\* receiver.try_recv(): the oldest message of the channel, and the rest
Receive_Newest(queue) ==
    [msg |-> queue[Len(queue)], rest |-> SubSeq(queue, 1, Len(queue) - 1)]

Receive(queue) == [msg |-> Head(queue), rest |-> Tail(queue)]

\* a RemoveConnection message that leaves the local map as it is
MuxApply_KeepsRemoved(conns, msg) ==
    IF msg.type = "AddConnection" THEN conns \cup {msg.peer_id} ELSE conns

\* single thread listener: what AddConnection and RemoveConnection do to
\* its local map
MuxApply(conns, msg) ==
    IF msg.type = "AddConnection"
    THEN conns \cup {msg.peer_id}
    ELSE conns \ {msg.peer_id}

\* a thread that holds the read lock for a broadcast
Broadcasting(t) == t \in DOMAIN bcast
\* the write lock can be taken: no thread holds the read lock
NoReader == DOMAIN bcast = {}

\* single thread listener: while let Ok(msg) = receiver.try_recv(), one
\* message, AddConnection or RemoveConnection
MuxRecv ==
    /\ ~multi_threaded
    /\ SelfPeerId \in DOMAIN channels
    /\ ~Broadcasting(SelfPeerId)
    /\ channels[SelfPeerId] # <<>>
    /\ LET r == Receive(channels[SelfPeerId])
       IN  /\ r.msg.type \in {"AddConnection", "RemoveConnection"}
           /\ mux_conns' = MuxApply(mux_conns, r.msg)
           /\ channels' = [channels EXCEPT ![SelfPeerId] = r.rest]
    /\ UNCHANGED <<multi_threaded, connections, pc, seed_idx, cur, stack,
                   listening, ret, poisoned>>
    /\ UNCHANGED <<workers, exiting, closed_conns, dispatch_vars, called, conn_vars,
                   codec_vars>>

\* the local connections the listener can still find gone in its for loop:
\* each is polled once between two drains of the channel, so not one
\* whose RemoveConnection message is still in the channel
Pollable ==
    {p \in mux_conns :
        \A i \in 1..Len(channels[SelfPeerId]) :
            channels[SelfPeerId][i] # RemoveMessage(p)}

\* the remote side closes the socket of a registered peer, or the socket
\* breaks, while the listener threads run: from now on a read from it
\* gives Ok(0) or an error other than WouldBlock
RemoteClose(p) ==
    /\ p \in DOMAIN connections
    /\ p \notin remote_closed
    /\ remote_closed' = remote_closed \cup {p}
    /\ UNCHANGED <<server_vars, bcast, nbcast, submitted, written, send_failed,
                   called, conn_vars, codec_vars>>

\* single thread listener: listen_connection on a local connection reads
\* Ok(0) or an error other than WouldBlock (a poll that finds WouldBlock
\* changes nothing)
MuxPoll(p) ==
    /\ ~multi_threaded
    /\ SelfPeerId \in DOMAIN channels
    /\ ~poisoned
    /\ NoReader
    /\ p \in Pollable
    /\ remove_connection(p)
    /\ remote_closed' = remote_closed \ {p}
    /\ UNCHANGED <<multi_threaded, mux_conns, pc, seed_idx, cur, stack,
                   listening, ret, poisoned>>
    /\ UNCHANGED <<bcast, nbcast, submitted, written, send_failed,
                   called, conn_vars, codec_vars>>

\* the thread of a peer: while !arc_connection.is_closed()
ThreadLoops(is_closed) == ~is_closed

\* multi threaded: listen_connection in the thread of peer p reads Ok(0)
\* or an error other than WouldBlock and calls remove_connection under
\* the write lock; the lock is released and the thread, still running,
\* goes back to its loop condition
ListenRemove(p) ==
    /\ multi_threaded
    /\ ~poisoned
    /\ NoReader
    /\ p \in workers
    /\ remove_connection(p)
    /\ remote_closed' = remote_closed \ {p}
    /\ UNCHANGED <<multi_threaded, mux_conns,
                   pc, seed_idx, cur, stack, listening, ret, poisoned>>
    /\ UNCHANGED <<bcast, nbcast, submitted, written, send_failed, called, conn_vars, codec_vars>>

\* while let Ok(msg) = receiver.try_recv() in the thread of a peer: the
\* message received is Message::Exit, the thread returns
ReceivesExit(queue) ==
    queue # <<>> /\ Receive(queue).msg.type = ExitMessage.type

\* multi threaded: the thread of a removed peer ends: it finds its
\* connection closed at while !arc_connection.is_closed(), or receives
\* the Exit that remove_connection sent. Until then other threads run and
\* see the peer unregistered with its thread alive. A thread that still
\* runs for an older connection of the same id is not kept apart
ThreadExit(p) ==
    /\ multi_threaded
    /\ p \in DOMAIN exiting
    /\ \/ ~ThreadLoops(exiting[p].is_closed)
       \/ ReceivesExit(exiting[p].receiver)
    /\ exiting' = Without(exiting, p)
    /\ UNCHANGED <<multi_threaded, connections, channels, mux_conns, pc, seed_idx,
                   cur, stack, listening, ret, poisoned, workers, closed_conns>>
    /\ UNCHANGED <<dispatch_vars, called, conn_vars, codec_vars>>

\* ------------------------------------------------- dispatch of bytes
\* bytes sent in a message of another kind
SendBytesMessage_AsAddConnection(peer_id, bytes) ==
    [type |-> "AddConnection", peer_id |-> peer_id, bytes |-> bytes]

\* Message::SendBytes(peer_id, bytes)
SendBytesMessage(peer_id, bytes) ==
    [type |-> "SendBytes", peer_id |-> peer_id, bytes |-> bytes]

\* the key of the channel that serves a peer
get_channel_for_connection(peer_id) ==
    IF multi_threaded THEN peer_id ELSE SelfPeerId

\* chan.send succeeds while the Receiver exists: multi threaded it is
\* owned by the peer's thread; the single thread listener never returns
ReceiverAlive(key) == IF multi_threaded THEN key \in workers ELSE TRUE

\* send_to_peer(peer_id, bytes): the bytes are handed over (submitted) and,
\* when the channel is found and its Receiver exists, enqueued
send_to_peer(peer_id, bytes) ==
    LET key == get_channel_for_connection(peer_id)
    IN  /\ submitted' = [submitted EXCEPT ![peer_id] = Append(@, bytes)]
        /\ channels' =
             IF key \in DOMAIN channels /\ ReceiverAlive(key)
             THEN [channels EXCEPT
                     ![key] = Append(@, SendBytesMessage(peer_id, bytes))]
             ELSE channels

\* listen_connection, the Ok(n) arm: thread t takes the read lock and
\* calls broadcast_bytes, which collects the registered connections
StartBroadcast(t) ==
    /\ nbcast < MaxBroadcasts
    /\ nbcast' = nbcast + 1
    /\ bcast' = IF DOMAIN connections = {} THEN bcast
                ELSE (t :> [bytes |-> nbcast + 1, todo |-> DOMAIN connections])
                     @@ bcast

\* multi threaded: the thread of peer p reads n > 0 bytes from it
ListenData(p) ==
    /\ multi_threaded
    /\ ~poisoned
    /\ p \in workers
    /\ ~Broadcasting(p)
    /\ p \notin remote_closed
    /\ StartBroadcast(p)
    /\ UNCHANGED <<server_vars, submitted, written, send_failed, remote_closed,
                   called, conn_vars, codec_vars>>

\* single thread listener: it reads n > 0 bytes from a local connection
MuxData(p) ==
    /\ ~multi_threaded
    /\ ~poisoned
    /\ SelfPeerId \in DOMAIN channels
    /\ ~Broadcasting(SelfPeerId)
    /\ p \in Pollable
    /\ p \notin remote_closed
    /\ StartBroadcast(SelfPeerId)
    /\ UNCHANGED <<server_vars, submitted, written, send_failed, remote_closed,
                   called, conn_vars, codec_vars>>

\* broadcast_bytes of thread t: send_to_peer for the next connection, in
\* the order of the HashMap; after the last one the read lock is released
BroadcastStep(t) ==
    /\ Broadcasting(t)
    /\ \E q \in bcast[t].todo :
         /\ send_to_peer(q, bcast[t].bytes)
         /\ bcast' = IF bcast[t].todo = {q} THEN Without(bcast, t)
                     ELSE [bcast EXCEPT ![t].todo = @ \ {q}]
    /\ UNCHANGED <<multi_threaded, connections, mux_conns, pc, seed_idx, cur,
                   stack, listening, ret, poisoned, workers, exiting,
                   closed_conns>>
    /\ UNCHANGED <<nbcast, written, send_failed, remote_closed, called, conn_vars, codec_vars>>

\* connection.send_bytes(&bytes) can succeed on a connection that
\* remove_connection has not closed
SendOutcomes(peer_id) ==
    IF peer_id \in DOMAIN connections THEN BOOLEAN ELSE {FALSE}

\* multi threaded: the thread of peer p receives SendBytes and writes the
\* bytes; when the write fails it returns, and its Receiver is dropped
ThreadRecv(p) ==
    /\ multi_threaded
    /\ p \in workers
    /\ ~Broadcasting(p)
    /\ p \in DOMAIN channels
    /\ channels[p] # <<>>
    /\ LET r == Receive(channels[p])
       IN  /\ r.msg.type = "SendBytes"
           /\ \E ok \in SendOutcomes(p) :
                IF ok
                THEN /\ written' = [written EXCEPT ![p] = Append(@, r.msg.bytes)]
                     /\ channels' = [channels EXCEPT ![p] = r.rest]
                     /\ UNCHANGED <<workers, exiting, send_failed>>
                ELSE /\ workers' = workers \ {p}
                     /\ send_failed' = send_failed \cup {p}
                     /\ UNCHANGED exiting
                     /\ channels' = [channels EXCEPT ![p] = <<>>]
                     /\ UNCHANGED written
    /\ UNCHANGED <<multi_threaded, connections, mux_conns, pc, seed_idx, cur,
                   stack, listening, ret, poisoned, closed_conns>>
    /\ UNCHANGED <<bcast, nbcast, submitted, remote_closed, called, conn_vars, codec_vars>>

\* single thread listener: it receives SendBytes(peer_id, bytes) and
\* writes the bytes when the peer is in its local map; when the write
\* fails it removes the peer from its local map
MuxSend ==
    /\ ~multi_threaded
    /\ SelfPeerId \in DOMAIN channels
    /\ ~Broadcasting(SelfPeerId)
    /\ channels[SelfPeerId] # <<>>
    /\ LET r == Receive(channels[SelfPeerId])
           q == r.msg.peer_id
       IN  /\ r.msg.type = "SendBytes"
           /\ channels' = [channels EXCEPT ![SelfPeerId] = r.rest]
           /\ IF q \in mux_conns
              THEN \E ok \in SendOutcomes(q) :
                     IF ok
                     THEN /\ written' = [written EXCEPT ![q] = Append(@, r.msg.bytes)]
                          /\ UNCHANGED <<mux_conns, send_failed>>
                     ELSE /\ mux_conns' = mux_conns \ {q}
                          /\ send_failed' = send_failed \cup {q}
                          /\ UNCHANGED written
              ELSE UNCHANGED <<mux_conns, send_failed, written>>
    /\ UNCHANGED <<multi_threaded, connections, pc, seed_idx, cur,
                   stack, listening, ret, poisoned, workers, exiting,
                   closed_conns>>
    /\ UNCHANGED <<bcast, nbcast, submitted, remote_closed, called, conn_vars, codec_vars>>

\* ------------------------------------------------ Reader (core/reader.rs)
\* the bytes used in slices: 255 is never part of valid UTF-8, 97 is 'a'
Bytes == {0, 1, 2, 97, 255}

\* Reader::new
Reader_new(bytes) == [bytes |-> bytes, total |-> 0]

total_size(rd) == Len(rd.bytes)

\* Reader::size: the bytes left
size(rd) == Len(rd.bytes) - rd.total

total_read(rd) == rd.total

\* the outcomes of a read: Ok(value) with the cursor moved by n, Err(err),
\* and a panic (an index past the end of the slice)
ReadOk(rd, n, value) ==
    [err |-> "Ok", value |-> value, reader |-> [rd EXCEPT !.total = @ + n]]
ReadErr(rd, err) == [err |-> err, value |-> <<>>, reader |-> rd]
ReadPanics(rd) == [err |-> "panic", value |-> <<>>, reader |-> rd]

\* a check against the length of the slice instead of the bytes left
read_bytes_ChecksTotalSize(rd, n, array_len) ==
    IF n > total_size(rd) THEN ReadErr(rd, "InvalidSize")
    ELSE IF rd.total + n > Len(rd.bytes) THEN ReadPanics(rd)
    ELSE IF array_len >= 0 /\ array_len # n
         THEN ReadErr([rd EXCEPT !.total = @ + n], "ErrorTryInto")
    ELSE ReadOk(rd, n, SubSeq(rd.bytes, rd.total + 1, rd.total + n))

\* Reader::read_bytes::<T>(n): T is a Vec (array_len = -1) or an array of
\* array_len bytes, into which try_into converts a slice of that length
read_bytes(rd, n, array_len) ==
    IF n > size(rd) THEN ReadErr(rd, "InvalidSize")
    ELSE IF rd.total + n > Len(rd.bytes) THEN ReadPanics(rd)
    ELSE IF array_len >= 0 /\ array_len # n
         THEN ReadErr([rd EXCEPT !.total = @ + n], "ErrorTryInto")
    ELSE ReadOk(rd, n, SubSeq(rd.bytes, rd.total + 1, rd.total + n))

read_bytes_32(rd) == read_bytes(rd, 32, 32)

read_bytes_64(rd) == read_bytes(rd, 64, 64)

\* Hash::new wraps the 32 bytes
read_hash(rd) == read_bytes_32(rd)

read_u8(rd) ==
    IF size(rd) = 0 THEN ReadErr(rd, "InvalidSize")
    ELSE IF rd.total + 1 > Len(rd.bytes) THEN ReadPanics(rd)
    ELSE ReadOk(rd, 1, rd.bytes[rd.total + 1])

\* u16, u32, u64, u128::from_be_bytes
RECURSIVE from_be_bytes(_)
from_be_bytes(bytes) ==
    IF bytes = <<>> THEN 0
    ELSE from_be_bytes(SubSeq(bytes, 1, Len(bytes) - 1)) * 256 + bytes[Len(bytes)]

read_bool(rd) ==
    LET r == read_u8(rd)
    IN  IF r.err = "Ok" THEN [r EXCEPT !.value = (r.value = 1)] ELSE r

read_u16(rd) ==
    LET r == read_bytes(rd, 2, 2)
    IN  IF r.err = "Ok" THEN [r EXCEPT !.value = from_be_bytes(r.value)] ELSE r

read_u64(rd) ==
    LET r == read_bytes(rd, 8, 8)
    IN  IF r.err = "Ok" THEN [r EXCEPT !.value = from_be_bytes(r.value)] ELSE r

read_u128(rd) ==
    LET r == read_bytes(rd, 16, 16)
    IN  IF r.err = "Ok" THEN [r EXCEPT !.value = from_be_bytes(r.value)] ELSE r

\* String::from_utf8 succeeds: over Bytes, on the sequences without 255
from_utf8(bytes) == \A i \in DOMAIN bytes : bytes[i] < 128

\* a String is written as its bytes
read_string_with_size(rd, n) ==
    LET r == read_bytes(rd, n, -1)
    IN  IF r.err # "Ok" THEN r
        ELSE IF from_utf8(r.value) THEN r
        ELSE ReadErr(r.reader, "InvalidValue")

read_string(rd) ==
    LET r == read_u8(rd)
    IN  IF r.err # "Ok" THEN r ELSE read_string_with_size(r.reader, r.value)

\* Option<String>: None is some = FALSE
None == [some |-> FALSE, str |-> <<>>]
Some(str) == [some |-> TRUE, str |-> str]

\* a length of 0 read as Some of the empty string
read_optional_string_EmptyAsSome(rd) ==
    LET r == read_u8(rd)
    IN  IF r.err # "Ok" THEN r
        ELSE LET t == read_string_with_size(r.reader, r.value)
             IN  IF t.err = "Ok" THEN [t EXCEPT !.value = Some(t.value)] ELSE t

\* Reader::read_optional_string
read_optional_string(rd) ==
    LET r == read_u8(rd)
    IN  IF r.err # "Ok" THEN r
        ELSE IF r.value = 0 THEN [r EXCEPT !.value = None]
        ELSE LET t == read_string_with_size(r.reader, r.value)
             IN  IF t.err = "Ok" THEN [t EXCEPT !.value = Some(t.value)] ELSE t

\* the reads made on a Reader
ReaderOps == {"read_bool", "read_bytes", "read_bytes_32", "read_bytes_64",
              "read_hash", "read_u8", "read_u16", "read_u64", "read_u128",
              "read_string_with_size", "read_string", "read_optional_string"}

\* the lengths asked of read_bytes and read_string_with_size
ReadLens == 0..4

ApplyRead(rd, op, n, array_len) ==
    CASE op = "read_bool" -> read_bool(rd)
      [] op = "read_bytes" -> read_bytes(rd, n, array_len)
      [] op = "read_bytes_32" -> read_bytes_32(rd)
      [] op = "read_bytes_64" -> read_bytes_64(rd)
      [] op = "read_hash" -> read_hash(rd)
      [] op = "read_u8" -> read_u8(rd)
      [] op = "read_u16" -> read_u16(rd)
      [] op = "read_u64" -> read_u64(rd)
      [] op = "read_u128" -> read_u128(rd)
      [] op = "read_string_with_size" -> read_string_with_size(rd, n)
      [] op = "read_string" -> read_string(rd)
      [] op = "read_optional_string" -> read_optional_string(rd)

NoRead == [op |-> "none", n |-> 0, err |-> "none", before |-> 0]

\* one read on the Reader; of its result the error kind is kept
ReaderCall(op) ==
    /\ \E n \in ReadLens, array_len \in {-1, 2} :
         /\ op \notin {"read_bytes", "read_string_with_size"} => n = 0
         /\ op # "read_bytes" => array_len = -1
         /\ LET r == ApplyRead(reader, op, n, array_len)
            IN  /\ reader' = r.reader
                /\ last_read' = [op |-> op, n |-> n, err |-> r.err,
                                 before |-> reader.total]
    /\ UNCHANGED <<decoding, codec>>
    /\ UNCHANGED <<server_vars, dispatch_vars, called, conn_vars>>

\* ------------------------------------------------------- Writer, packets
\* u64::to_be_bytes and the like: the width bytes of v, big-endian
RECURSIVE to_be_bytes(_, _)
to_be_bytes(v, width) ==
    IF width = 0 THEN <<>>
    ELSE Append(to_be_bytes(v \div 256, width - 1), v % 256)

\* Writer::write_u8(len as u8), then the bytes of the string
write_string(str) == <<Len(str) % 256>> \o str

write_optional_string(opt) == IF opt.some THEN write_string(opt.str) ELSE <<0>>

\* globals::ip_to_bytes: a kind byte (0 = IPv4, 1 = IPv6), the 4 or 16
\* bytes of the address, the port
ip_to_bytes(peer) == <<peer.kind>> \o peer.ip \o to_be_bytes(peer.port, 2)

\* globals::ip_from_bytes
ip_from_bytes(rd) ==
    LET kind == read_u8(rd)
        ip == read_bytes(kind.reader, IF kind.value = 0 THEN 4 ELSE 16,
                         IF kind.value = 0 THEN 4 ELSE 16)
        port == read_u16(ip.reader)
    IN  IF kind.err # "Ok" THEN kind
        ELSE IF kind.value \notin {0, 1} THEN ReadErr(kind.reader, "InvalidValue")
        ELSE IF ip.err # "Ok" THEN ip
        ELSE IF port.err # "Ok" THEN port
        ELSE [port EXCEPT !.value = [kind |-> kind.value, ip |-> ip.value,
                                     port |-> port.value]]

\* Handshake::MAX_LEN
MAX_LEN == 16

\* Handshake::new: its three assertions hold
Handshake_new_asserts(version, node_tag, peers) ==
    /\ Len(version) > 0 /\ Len(version) <= MAX_LEN
    /\ node_tag.some => (Len(node_tag.str) > 0 /\ Len(node_tag.str) <= MAX_LEN)
    /\ Len(peers) <= MAX_LEN

RECURSIVE write_peers(_)
write_peers(peers) ==
    IF peers = <<>> THEN <<>>
    ELSE ip_to_bytes(Head(peers)) \o write_peers(Tail(peers))

\* impl Serializer for Handshake: write
Handshake_write(hs) ==
    write_string(hs.version)
    \o write_optional_string(hs.node_tag)
    \o hs.network_id
    \o to_be_bytes(hs.peer_id, 8)
    \o to_be_bytes(hs.local_port, 2)
    \o to_be_bytes(hs.utc_time, 8)
    \o to_be_bytes(hs.block_height, 8)
    \o hs.block_top_hash
    \o <<Len(hs.peers) % 256>>
    \o write_peers(hs.peers)

\* Handshake::read: for _ in 0..peers_len { peers.push(ip_from_bytes(reader)?) }
RECURSIVE read_peers(_, _)
read_peers(rd, count) ==
    IF count = 0 THEN ReadOk(rd, 0, <<>>)
    ELSE LET peer == ip_from_bytes(rd)
             rest == read_peers(peer.reader, count - 1)
         IN  IF peer.err # "Ok" THEN peer
             ELSE IF rest.err # "Ok" THEN rest
             ELSE [rest EXCEPT !.value = <<peer.value>> \o rest.value]

\* a version of 0 bytes that is accepted
VersionSizeOk_AllowsEmpty(version) == ~(Len(version) > MAX_LEN)

\* Handshake::read: version.len() == 0 || version.len() > MAX_LEN is
\* InvalidSize
VersionSizeOk(version) == ~(Len(version) = 0 \/ Len(version) > MAX_LEN)

\* Handshake::read: a tag longer than MAX_LEN is InvalidSize
TagSizeOk(node_tag) == ~(node_tag.some /\ Len(node_tag.str) > MAX_LEN)

\* Handshake::read: peers_len > MAX_LEN is InvalidSize
PeersLenOk(peers_len) == ~(peers_len > MAX_LEN)

\* the fields of a Handshake in the order Handshake::read reads them
HandshakeFields ==
    <<"version", "node_tag", "network_id", "peer_id", "local_port", "utc_time",
      "block_height", "block_top_hash", "peers_len", "peers">>

NoHandshake == [f \in {HandshakeFields[i] : i \in DOMAIN HandshakeFields} |-> <<>>]

\* Handshake::read: the read of one field and the check of its length; hs
\* holds the fields read before it
ReadField(rd, field, hs) ==
    CASE field = "version" ->
           LET r == read_string(rd)
           IN  IF r.err = "Ok" /\ ~VersionSizeOk(r.value)
               THEN ReadErr(r.reader, "InvalidSize") ELSE r
      [] field = "node_tag" ->
           LET r == read_optional_string(rd)
           IN  IF r.err = "Ok" /\ ~TagSizeOk(r.value)
               THEN ReadErr(r.reader, "InvalidSize") ELSE r
      [] field = "network_id" -> read_bytes(rd, 16, 16)
      [] field = "peer_id" -> read_u64(rd)
      [] field = "local_port" -> read_u16(rd)
      [] field = "utc_time" -> read_u64(rd)
      [] field = "block_height" -> read_u64(rd)
      [] field = "block_top_hash" -> read_bytes_32(rd)
      [] field = "peers_len" ->
           LET r == read_u8(rd)
           IN  IF r.err = "Ok" /\ ~PeersLenOk(r.value)
               THEN ReadErr(r.reader, "InvalidSize") ELSE r
      [] field = "peers" -> read_peers(rd, hs["peers_len"])

\* the Handshake that Handshake::new builds from the fields read
HandshakeOf(hs) ==
    [version |-> hs["version"], node_tag |-> hs["node_tag"],
     network_id |-> hs["network_id"], peer_id |-> hs["peer_id"],
     local_port |-> hs["local_port"], utc_time |-> hs["utc_time"],
     block_height |-> hs["block_height"],
     block_top_hash |-> hs["block_top_hash"], peers |-> hs["peers"]]

\* impl Serializer for ObjectRequest: read
ObjectRequest_read(rd) ==
    LET id == read_u8(rd)
        hash == read_hash(id.reader)
    IN  IF id.err # "Ok" THEN id
        ELSE IF id.value \notin {0, 1} THEN ReadErr(id.reader, "InvalidValue")
        ELSE IF hash.err # "Ok" THEN hash
        ELSE [hash EXCEPT !.value =
                [type |-> "ObjectRequest",
                 kind |-> IF id.value = 0 THEN "Block" ELSE "Transaction",
                 hash |-> hash.value]]

\* CompleteBlock::read and Transaction::read, whose sources (core/block.rs,
\* core/transaction.rs) are not at hand and whose layout the specification
\* leaves open: the read fails, or takes any number of the bytes left
PayloadOutcomes(rd) ==
    {ReadErr(rd, err) : err \in {"InvalidSize", "InvalidValue"}}
    \cup {ReadOk(rd, n, [type |-> "Payload", len |-> n]) : n \in 0..size(rd)}

\* impl Serializer for ObjectResponse: read, every outcome it can have
ObjectResponse_read(rd) ==
    LET id == read_u8(rd)
        request == ObjectRequest_read(id.reader)
    IN  IF id.err # "Ok" THEN {id}
        ELSE IF id.value \in {0, 1}
        THEN {IF r.err # "Ok" THEN r
              ELSE [r EXCEPT !.value =
                      [type |-> "ObjectResponse",
                       kind |-> IF id.value = 0 THEN "Block" ELSE "Transaction",
                       payload |-> r.value]] : r \in PayloadOutcomes(id.reader)}
        ELSE IF id.value = 2
        THEN {IF request.err # "Ok" THEN request
              ELSE [request EXCEPT !.value =
                      [type |-> "ObjectResponse", kind |-> "NotFound",
                       payload |-> request.value]]}
        ELSE {ReadErr(id.reader, "InvalidValue")}

\* no decoder running; a decoder about to read the tag of a packet, about
\* to read the object of a packet with that tag, about to read field i of
\* a Handshake, and one that has returned
NoDecoding ==
    [step |-> "idle", tag |-> 0, i |-> 0, hs |-> NoHandshake, err |-> "none",
     packet |-> <<>>]
DecodingPacket == [NoDecoding EXCEPT !.step = "tag"]
DecodingHandshake == [NoDecoding EXCEPT !.step = "fields", !.i = 1]
DecodingDone(err, packet) ==
    [NoDecoding EXCEPT !.step = "done", !.err = err, !.packet = packet]

\* Packet::read: the tag is read and selects the variant (0 Handshake,
\* 1 ObjectRequest, 2 ObjectResponse); an unknown tag is rejected
DecodeTag ==
    /\ decoding.step = "tag"
    /\ LET tag == read_u8(reader)
       IN  /\ reader' = tag.reader
           /\ decoding' =
                IF tag.err # "Ok" THEN DecodingDone(tag.err, <<>>)
                ELSE IF tag.value = 0 THEN DecodingHandshake
                ELSE IF tag.value \in {1, 2}
                THEN [NoDecoding EXCEPT !.step = "object", !.tag = tag.value]
                ELSE DecodingDone("InvalidPacket", <<>>)
    /\ UNCHANGED <<last_read, codec>>
    /\ UNCHANGED <<server_vars, dispatch_vars, called, conn_vars>>

\* Packet::read, tag 1: ObjectRequest::read, tag 2: ObjectResponse::read
DecodeObject ==
    /\ decoding.step = "object"
    /\ \E r \in IF decoding.tag = 1 THEN {ObjectRequest_read(reader)}
                 ELSE ObjectResponse_read(reader) :
         /\ reader' = r.reader
         /\ decoding' = DecodingDone(r.err, IF r.err = "Ok" THEN r.value ELSE <<>>)
    /\ UNCHANGED <<last_read, codec>>
    /\ UNCHANGED <<server_vars, dispatch_vars, called, conn_vars>>

\* Handshake::read: the next field is read, an error is returned at once
\* (the ? operator), and after the last field Handshake::new is called
DecodeField ==
    /\ decoding.step = "fields"
    /\ LET field == HandshakeFields[decoding.i]
           r == ReadField(reader, field, decoding.hs)
           hs == [decoding.hs EXCEPT ![field] = r.value]
       IN  /\ reader' = r.reader
           /\ decoding' =
                IF r.err # "Ok" THEN DecodingDone(r.err, <<>>)
                ELSE IF decoding.i < Len(HandshakeFields)
                THEN [decoding EXCEPT !.i = @ + 1, !.hs = hs]
                ELSE IF Handshake_new_asserts(hs["version"], hs["node_tag"], hs["peers"])
                THEN DecodingDone("Ok", [type |-> "Handshake", hs |-> HandshakeOf(hs)])
                ELSE DecodingDone("panic", <<>>)
    /\ UNCHANGED <<last_read, codec>>
    /\ UNCHANGED <<server_vars, dispatch_vars, called, conn_vars>>

\* ------------------------------------- Handshake (p2p/handshake.rs)
\* the outcomes of Handshake::from_bytes
FromBytesErr(err) == [err |-> err, value |-> <<>>]
FromBytesPanics == [err |-> "panic", value |-> <<>>]

\* data[n..n+len] of a slice indexed from 0
Slice(data, n, len) == SubSeq(data, n + 1, n + len)

\* Handshake::from_bytes, the loop over the peers: n is the index reached,
\* left the peers still to read
RECURSIVE from_bytes_peers(_, _, _, _, _)
from_bytes_peers(data, n, expected_size, left, peers) ==
    IF left = 0 THEN [err |-> "Ok", value |-> peers]
    ELSE IF n >= Len(data) THEN FromBytesPanics
    ELSE LET peer_size == data[n + 1]
             expected == expected_size + peer_size
         IN  IF peer_size = 0 \/ peer_size > MAX_LEN \/ Len(data) < expected
             THEN FromBytesErr("InvalidPeerSize")
             ELSE IF n + 1 + peer_size > Len(data) THEN FromBytesPanics
             ELSE IF ~from_utf8(Slice(data, n + 1, peer_size))
             THEN FromBytesPanics   \* String::from_utf8(..).unwrap()
             ELSE from_bytes_peers(data, n + 1 + peer_size, expected, left - 1,
                                   Append(peers, Slice(data, n + 1, peer_size)))

\* Handshake::from_bytes, after the version: n is the index of the length
\* of the tag
from_bytes_tail(data, version, n, expected_size) ==
    LET node_tag_len == data[n + 1]
        expected == expected_size + node_tag_len
        tag == Slice(data, n + 1, node_tag_len)
        m == n + 1 + node_tag_len
        peers_len == data[m + 72 + 1]
        peers == from_bytes_peers(data, m + 73, expected + peers_len, peers_len, <<>>)
    IN  IF node_tag_len > MAX_LEN \/ Len(data) < expected
        THEN FromBytesErr("InvalidTagSize")
        ELSE IF node_tag_len # 0 /\ ~from_utf8(tag)
        THEN FromBytesErr("InvalidUtf8Sequence")
        ELSE IF m + 73 > Len(data) THEN FromBytesPanics
        ELSE IF peers_len > MAX_LEN \/ Len(data) < expected + peers_len
        THEN FromBytesErr("InvalidPeerSize")
        ELSE IF peers.err # "Ok" THEN peers
        ELSE IF ~Handshake_new_asserts(version,
                                       IF node_tag_len = 0 THEN None ELSE Some(tag),
                                       peers.value)
        THEN FromBytesPanics
        ELSE [err |-> "Ok",
              value |-> [version |-> version,
                         node_tag |-> IF node_tag_len = 0 THEN None ELSE Some(tag),
                         network_id |-> Slice(data, m, 16),
                         peer_id |-> from_be_bytes(Slice(data, m + 16, 8)),
                         utc_time |-> from_be_bytes(Slice(data, m + 24, 8)),
                         block_height |-> from_be_bytes(Slice(data, m + 32, 8)),
                         block_top_hash |-> Slice(data, m + 40, 32),
                         peers |-> peers.value]]

\* Handshake::from_bytes
Handshake_from_bytes(data) ==
    IF Len(data) < 75 THEN FromBytesErr("InvalidMinSize")
    ELSE LET version_len == data[1]
             version == Slice(data, 1, version_len)
         IN  IF version_len = 0 \/ version_len > MAX_LEN \/ Len(data) < 75 + version_len
             THEN FromBytesErr("InvalidVersionSize")
             ELSE IF ~from_utf8(version)
             THEN FromBytesPanics   \* String::from_utf8(..).unwrap()
             ELSE from_bytes_tail(data, version, 1 + version_len, 75 + version_len)

\* nothing given to the codec; a Handshake value to write; bytes received
NoCodec == [value |-> <<>>, data |-> <<>>, given |-> FALSE, old |-> "none"]
CodecValue(hs) == [NoCodec EXCEPT !.value = hs]
CodecData(data) == [NoCodec EXCEPT !.data = data, !.given = TRUE]

\* Serializer::write of the Handshake value into a Writer: the bytes
WriteHandshake ==
    /\ ~codec.given
    /\ codec.value # <<>>
    /\ codec' = [codec EXCEPT !.data = Handshake_write(codec.value), !.given = TRUE]
    /\ UNCHANGED <<reader, last_read, decoding>>
    /\ UNCHANGED <<server_vars, dispatch_vars, called, conn_vars>>

\* Reader::new(&bytes) and the call of Handshake::read
StartRead ==
    /\ codec.given
    /\ decoding.step = "idle"
    /\ reader' = Reader_new(codec.data)
    /\ decoding' = DecodingHandshake
    /\ UNCHANGED <<last_read, codec>>
    /\ UNCHANGED <<server_vars, dispatch_vars, called, conn_vars>>

\* handle_new_connection: Handshake::from_bytes(&buffer[0..n]) on the
\* bytes received
FromBytes ==
    /\ codec.given
    /\ codec.value = <<>>
    /\ codec.old = "none"
    /\ codec' = [codec EXCEPT !.old = Handshake_from_bytes(codec.data).err]
    /\ UNCHANGED <<reader, last_read, decoding>>
    /\ UNCHANGED <<server_vars, dispatch_vars, called, conn_vars>>

\* ------------------------------------------ Connection (connection.rs)
\* the tasks that share the Connection
Tasks == {"t1", "t2"}
\* the lengths of the buffers given to send_bytes: empty, small, and one
\* larger than what a socket takes at once, for which write_all returns
\* only when the remote side has read part of it
BufLens == {0, 1, 2, 16777216}
\* the lengths of the scratch buffers given to read_packet
ReadBufLens == {2, 8, 512}
\* the values given as max_size to read_packet
MaxSizes == {34, 80}

\* no read of the socket made yet in a call
NotRead == -2

\* a task with its scratch buffer and no call in progress; left: the bytes
\* of the payload still to read, bytes: those read so far, got: the bytes
\* the reads of the current call returned, read: what its last read of the
\* socket returned (-1: an error)
NewTask(buf_len, max_size) ==
    [pc |-> "idle", op |-> "none", len |-> 0, again |-> FALSE,
     result |-> "none", buf_len |-> buf_len, max_size |-> max_size,
     frame |-> 0, left |-> 0, bytes |-> <<>>, got |-> 0, read |-> NotRead,
     consumed |-> 0, packet |-> <<>>]

\* the task as it enters a call
Calls(task, op, pc0, len, again) ==
    [NewTask(task.buf_len, task.max_size) EXCEPT
        !.pc = pc0, !.op = op, !.len = len, !.again = again]

Returned(task, result) == [task EXCEPT !.pc = "idle", !.result = result]

\* usize as the counters hold it: USIZE_BITS bits (64 on the targets the
\* node is built for, 32 on others), kept here as digits of 16 bits each,
\* the least significant first
USIZE_BITS == 64
LimbBase == 65536
Limbs == USIZE_BITS \div 16

\* a count (below 2^31) as usize
usize(n) ==
    [i \in 1..Limbs |->
        IF i = 1 THEN n % LimbBase
        ELSE IF i = 2 THEN (n \div LimbBase) % LimbBase
        ELSE 0]

\* usize::MAX
USIZE_MAX == [i \in 1..Limbs |-> LimbBase - 1]

\* the carry into digit i of a + b
RECURSIVE Carry(_, _, _)
Carry(a, b, i) ==
    IF i = 1 THEN 0 ELSE (a[i - 1] + b[i - 1] + Carry(a, b, i - 1)) \div LimbBase

\* usize::wrapping_add: the sum modulo usize::MAX + 1 (the carry out of
\* the last digit is lost)
wrapping_add(a, b) ==
    [i \in 1..Limbs |-> (a[i] + b[i] + Carry(a, b, i)) % LimbBase]

\* a < b on usize
Less(a, b) ==
    \E i \in 1..Limbs :
        /\ a[i] < b[i]
        /\ \A j \in (i + 1)..Limbs : a[j] = b[j]

\* AtomicUsize::fetch_add(n, Relaxed): the new value; the addition wraps
\* around on overflow
FetchAdd(counter, n) == wrapping_add(counter, usize(n))

\* a task calls send_bytes(buf); again: a close() has returned before this
\* call
CallSendBytes(t) ==
    /\ tasks[t].pc = "idle"
    /\ ncalls < MaxCalls
    /\ ncalls' = ncalls + 1
    /\ \E len \in BufLens :
         tasks' = [tasks EXCEPT ![t] = Calls(@, "send_bytes", "send_lock", len,
                                             first_close # "none")]
    /\ UNCHANGED <<closed, mailbox, inbox, socket, stream_lock, tx_lock, bytes_in,
                   bytes_out, first_close, state>>
    /\ UNCHANGED <<server_vars, dispatch_vars, called, codec_vars>>

\* send_bytes: self.stream.lock().await
SendLock(t) ==
    /\ tasks[t].pc = "send_lock"
    /\ stream_lock = "none"
    /\ stream_lock' = t
    /\ tasks' = [tasks EXCEPT ![t].pc = "send_write"]
    /\ UNCHANGED <<closed, mailbox, inbox, socket, tx_lock, bytes_in, bytes_out,
                   ncalls, first_close, state>>
    /\ UNCHANGED <<server_vars, dispatch_vars, called, codec_vars>>

\* what write_all and flush can do with a buffer of len bytes: nothing is
\* written for an empty buffer, which succeeds on any socket; a write to
\* a socket that was shut down fails
WriteOutcomes(len) ==
    IF len = 0 THEN {"ok"}
    ELSE IF socket = "shutdown" THEN {"write_err"}
    ELSE {"ok", "write_err", "flush_err"}

\* send_bytes: write_all(buf)?, bytes_out.fetch_add(buf.len()), flush()?,
\* Ok(()); the guard of the stream is dropped on return. While write_all
\* is pending (the remote side does not read and the buffer does not fit)
\* the step is not taken and the stream stays locked
SendWrite(t) ==
    /\ tasks[t].pc = "send_write"
    /\ \E outcome \in WriteOutcomes(tasks[t].len) :
         /\ bytes_out' = IF outcome = "write_err" THEN bytes_out
                         ELSE FetchAdd(bytes_out, tasks[t].len)
         /\ tasks' = [tasks EXCEPT ![t] =
                        Returned(@, IF outcome = "ok" THEN "Ok" ELSE "ErrorStd")]
    /\ stream_lock' = "none"
    /\ UNCHANGED <<closed, mailbox, inbox, socket, tx_lock, bytes_in, ncalls, first_close, state>>
    /\ UNCHANGED <<server_vars, dispatch_vars, called, codec_vars>>

\* a task calls read_packet(buf, max_size)
CallReadPacket(t) ==
    /\ tasks[t].pc = "idle"
    /\ ncalls < MaxCalls
    /\ ncalls' = ncalls + 1
    /\ tasks' = [tasks EXCEPT ![t] = Calls(@, "read_packet", "read_lock", 0, FALSE)]
    /\ UNCHANGED <<closed, mailbox, inbox, socket, stream_lock, tx_lock, bytes_in,
                   bytes_out, first_close, state>>
    /\ UNCHANGED <<server_vars, dispatch_vars, called, codec_vars>>

\* read_packet: self.stream.lock().await
ReadLock(t) ==
    /\ tasks[t].pc = "read_lock"
    /\ stream_lock = "none"
    /\ stream_lock' = t
    /\ tasks' = [tasks EXCEPT ![t].pc = "read_size"]
    /\ UNCHANGED <<closed, mailbox, inbox, socket, tx_lock, bytes_in, bytes_out,
                   ncalls, first_close, state>>
    /\ UNCHANGED <<server_vars, dispatch_vars, called, codec_vars>>

\* stream.read(buf) with a buffer of max bytes: an error (written -1), 0
\* once the remote side has closed and nothing is left to read, or the
\* count of the bytes taken, which can be fewer than the bytes available
ReadResults(max) ==
    IF inbox = <<>> THEN {-1, 0}
    ELSE {-1} \cup (1..Min(max, Len(inbox)))

\* read_bytes_from_stream: the error of a read that gave no bytes
ReadError(r) == IF r = 0 THEN "Disconnected" ELSE "ErrorStd"

\* a count that is added to bytes_in whatever the read gave
Counted_Always(r) == 1

\* read_bytes_from_stream: what a read that returned r adds to bytes_in
Counted(r) == IF r <= 0 THEN 0 ELSE r

\* a prefix that is accepted when it is 0
ValidPacketSize_AllowsZero(frame, max_size) == ~(frame > max_size)

\* read_packet: if size == 0 || size > max_size, InvalidPacketSize
ValidPacketSize(frame, max_size) == ~(frame = 0 \/ frame > max_size)

\* a cursor that is not compared with the length of the frame
FullyRead_Always(rd, bytes) == TRUE

\* read_packet: reader.total_read() != bytes.len() is
\* InvalidPacketNotFullRead
FullyRead(rd, bytes) == total_read(rd) = Len(bytes)

\* the first n bytes of a sequence, and what is left after them
Take(q, n) == SubSeq(q, 1, n)
Drop(q, n) == SubSeq(q, n + 1, Len(q))

\* read_packet: read_packet_size (one read into buf[0..4], which must
\* give 4 bytes; a buffer shorter than 4 makes the slice panic) and the
\* check of the size against max_size
ReadSize(t) ==
    /\ tasks[t].pc = "read_size"
    /\ IF tasks[t].buf_len < 4
       THEN /\ tasks' = [tasks EXCEPT ![t] = Returned(@, "panic")]
            /\ stream_lock' = "none"
            /\ UNCHANGED <<bytes_in, inbox>>
       ELSE \E r \in ReadResults(4) :
              /\ bytes_in' = FetchAdd(bytes_in, Counted(r))
              /\ inbox' = IF r <= 0 THEN inbox ELSE Drop(inbox, r)
              /\ IF r <= 0
                 THEN /\ tasks' = [tasks EXCEPT
                                     ![t] = Returned([@ EXCEPT !.read = r],
                                                     ReadError(r))]
                      /\ stream_lock' = "none"
                 ELSE IF r # 4
                 THEN /\ tasks' = [tasks EXCEPT
                                     ![t] = Returned([@ EXCEPT !.got = r, !.read = r],
                                                     "InvalidPacketSize")]
                      /\ stream_lock' = "none"
                 ELSE LET frame == from_be_bytes(Take(inbox, 4))
                      IN  IF ~ValidPacketSize(frame, tasks[t].max_size)
                          THEN /\ tasks' = [tasks EXCEPT
                                              ![t] = Returned([@ EXCEPT !.got = 4,
                                                                        !.read = 4,
                                                                        !.frame = frame],
                                                              "InvalidPacketSize")]
                               /\ stream_lock' = "none"
                          ELSE /\ tasks' = [tasks EXCEPT ![t].pc = "read_all",
                                                         ![t].got = 4,
                                                         ![t].read = 4,
                                                         ![t].frame = frame,
                                                         ![t].left = frame]
                               /\ UNCHANGED stream_lock
    /\ UNCHANGED <<closed, mailbox, socket, tx_lock, bytes_out, ncalls, first_close, state>>
    /\ UNCHANGED <<server_vars, dispatch_vars, called, codec_vars>>

\* a request for the whole buffer, whatever is left of the frame
ReadMax_WholeBuffer(buf_size, left) == buf_size

\* read_all_bytes: max = if buf_size > left { left } else { buf_size }
ReadMax(buf_size, left) == IF buf_size > left THEN left ELSE buf_size

\* read_packet: one turn of the loop of read_all_bytes (a read of at most
\* max bytes, left -= read, bytes.extend) and, when nothing is left, the
\* decoding of the bytes
ReadAll(t) ==
    /\ tasks[t].pc = "read_all"
    /\ \E r \in ReadResults(ReadMax(tasks[t].buf_len, tasks[t].left)) :
         /\ bytes_in' = FetchAdd(bytes_in, Counted(r))
         /\ inbox' = IF r <= 0 THEN inbox ELSE Drop(inbox, r)
         /\ IF r <= 0
            THEN /\ tasks' = [tasks EXCEPT
                                ![t] = Returned([@ EXCEPT !.read = r], ReadError(r))]
                 /\ stream_lock' = "none"
            ELSE IF r > tasks[t].left   \* left -= read as u32 underflows
            THEN /\ tasks' = [tasks EXCEPT
                                ![t] = Returned([@ EXCEPT !.read = r], "panic")]
                 /\ stream_lock' = "none"
            ELSE IF r < tasks[t].left
            THEN /\ tasks' = [tasks EXCEPT ![t].left = @ - r,
                                           ![t].got = @ + r,
                                           ![t].read = r,
                                           ![t].bytes = @ \o Take(inbox, r)]
                 /\ UNCHANGED stream_lock
            ELSE LET bytes == tasks[t].bytes \o Take(inbox, r)
                 IN  /\ tasks' = [tasks EXCEPT ![t].pc = "decode",
                                                ![t].left = 0,
                                                ![t].got = @ + r,
                                                ![t].read = r,
                                                ![t].bytes = bytes]
                     /\ UNCHANGED stream_lock
         /\ IF r = tasks[t].left
            THEN /\ reader' = Reader_new(tasks[t].bytes \o Take(inbox, r))
                 /\ decoding' = DecodingPacket
            ELSE UNCHANGED <<reader, decoding>>
    /\ UNCHANGED <<last_read, codec>>
    /\ UNCHANGED <<closed, mailbox, socket, tx_lock, bytes_out, ncalls, first_close, state>>
    /\ UNCHANGED <<server_vars, dispatch_vars, called>>

\* read_packet: Packet::read has returned; its error is returned (the ?
\* operator), else the cursor is compared with the length of the frame;
\* the guard of the stream is dropped
ReadDecoded(t) ==
    /\ tasks[t].pc = "decode"
    /\ decoding.step = "done"
    /\ LET result == IF decoding.err # "Ok" THEN decoding.err
                     ELSE IF ~FullyRead(reader, tasks[t].bytes)
                     THEN "InvalidPacketNotFullRead"
                     ELSE "Ok"
       IN  tasks' = [tasks EXCEPT
                       ![t] = Returned([@ EXCEPT
                                          !.consumed = total_read(reader),
                                          !.packet = IF result = "Ok"
                                                     THEN decoding.packet ELSE <<>>],
                                       result)]
    /\ stream_lock' = "none"
    /\ decoding' = NoDecoding
    /\ reader' = Reader_new(<<>>)
    /\ UNCHANGED <<last_read, codec>>
    /\ UNCHANGED <<closed, mailbox, inbox, socket, tx_lock, bytes_in, bytes_out, ncalls,
                   first_close, state>>
    /\ UNCHANGED <<server_vars, dispatch_vars, called>>

\* a task calls close(); again: a close() has returned before this call
CallClose(t) ==
    /\ tasks[t].pc = "idle"
    /\ ncalls < MaxCalls
    /\ ncalls' = ncalls + 1
    /\ tasks' = [tasks EXCEPT ![t] = Calls(@, "close", "close_flag", 0,
                                           first_close # "none")]
    /\ UNCHANGED <<closed, mailbox, inbox, socket, stream_lock, tx_lock, bytes_in,
                   bytes_out, first_close, state>>
    /\ UNCHANGED <<server_vars, dispatch_vars, called, codec_vars>>

\* close: self.closed.store(true, Relaxed)
CloseFlag(t) ==
    /\ tasks[t].pc = "close_flag"
    /\ closed' = TRUE
    /\ tasks' = [tasks EXCEPT ![t].pc = "close_exit"]
    /\ UNCHANGED <<mailbox, inbox, socket, stream_lock, tx_lock, bytes_in, bytes_out,
                   ncalls, first_close, state>>
    /\ UNCHANGED <<server_vars, dispatch_vars, called, codec_vars>>

\* close: self.get_tx().lock().await and tx.send(ConnectionMessage::Exit)?;
\* the Connection owns rx, so the send succeeds; the guard of tx lives
\* until close returns
CloseExit(t) ==
    /\ tasks[t].pc = "close_exit"
    /\ tx_lock = "none"
    /\ tx_lock' = t
    /\ mailbox' = Append(mailbox, "Exit")
    /\ tasks' = [tasks EXCEPT ![t].pc = "close_lock"]
    /\ UNCHANGED <<closed, inbox, socket, stream_lock, bytes_in, bytes_out, ncalls,
                   first_close, state>>
    /\ UNCHANGED <<server_vars, dispatch_vars, called, codec_vars>>

\* close: self.stream.lock().await
CloseLock(t) ==
    /\ tasks[t].pc = "close_lock"
    /\ stream_lock = "none"
    /\ stream_lock' = t
    /\ tasks' = [tasks EXCEPT ![t].pc = "close_shutdown"]
    /\ UNCHANGED <<closed, mailbox, inbox, socket, tx_lock, bytes_in, bytes_out,
                   ncalls, first_close, state>>
    /\ UNCHANGED <<server_vars, dispatch_vars, called, codec_vars>>

\* close: stream.shutdown().await?, Ok(()); both guards are dropped
CloseShutdown(t) ==
    /\ tasks[t].pc = "close_shutdown"
    /\ \E ok \in BOOLEAN :
         LET result == IF ok THEN "Ok" ELSE "ErrorStd"
         IN  /\ socket' = IF ok THEN "shutdown" ELSE socket
             /\ tasks' = [tasks EXCEPT ![t] = Returned(@, result)]
             /\ first_close' = IF first_close = "none" THEN result ELSE first_close
    /\ UNCHANGED state
    /\ stream_lock' = "none"
    /\ tx_lock' = "none"
    /\ UNCHANGED <<closed, mailbox, inbox, bytes_in, bytes_out, ncalls>>
    /\ UNCHANGED <<server_vars, dispatch_vars, called, codec_vars>>

\* ---------------------------------------------------------- specification
\* no bytes read from a peer yet
DispatchIdle ==
    /\ bcast = <<>>
    /\ nbcast = 0
    /\ submitted = [p \in RemotePeerIds |-> <<>>]
    /\ written = [p \in RemotePeerIds |-> <<>>]
    /\ send_failed = {}
    /\ remote_closed = {}

NoCall == [made |-> FALSE, peer_id |-> 0, result |-> FALSE]

\* Connection::new, and no task calling the connection
ConnectionIdle ==
    /\ closed = FALSE
    /\ mailbox = <<>>
    /\ inbox = <<>>
    /\ socket = "open"
    /\ stream_lock = "none"
    /\ tx_lock = "none"
    /\ bytes_in = usize(0)
    /\ bytes_out = usize(0)
    /\ tasks = <<>>
    /\ ncalls = 0
    /\ first_close = "none"
    /\ state = Connection_new_state

\* no Reader in use
CodecIdle ==
    /\ reader = Reader_new(<<>>)
    /\ last_read = NoRead
    /\ decoding = NoDecoding
    /\ codec = NoCodec

\* P2pServer::new and the first lines of start()
ServerNew ==
    /\ multi_threaded \in BOOLEAN
    /\ connections = <<>>
    /\ channels = <<>>
    /\ mux_conns = {}
    /\ pc = "seeds"
    /\ seed_idx = 1
    /\ cur = NoConn
    /\ stack = <<>>
    /\ listening = FALSE
    /\ ret = NoRet
    /\ poisoned = FALSE
    /\ workers = {}
    /\ exiting = <<>>
    /\ closed_conns = {}

Init ==
    /\ ServerNew
    /\ DispatchIdle
    /\ called = NoCall
    /\ ConnectionIdle
    /\ CodecIdle

Next ==
    \/ SeedDial
    \/ Bind
    \/ AcceptInbound
    \/ ReadHandshake
    \/ Reply
    \/ Register
    \/ GossipDial
    \/ Return
    \/ StartListener
    \/ MuxRecv
    \/ \E p \in PeerIds : MuxPoll(p)
    \/ \E p \in PeerIds : ListenRemove(p)
    \/ \E p \in PeerIds : ThreadExit(p)

Spec == Init /\ [][Next]_vars

\* the peers of the registries the dispatch starts from
DispatchPeers == {1, 2}

\* an incoming connection that handle_new_connection has registered
Established(p) ==
    [peer_id |-> p, addr |-> p, out |-> FALSE, sent |-> 1,
     state |-> Connection_new_state]

\* the sequences that hold each element of S once
Orderings(S) ==
    {q \in [1..Cardinality(S) -> S] : \A i, j \in DOMAIN q : q[i] = q[j] => i = j}

\* the server in its accept loop with some of Peers registered; single
\* thread: the listener has received the AddConnection messages of some
\* of them
Running(Peers) ==
    /\ multi_threaded \in BOOLEAN
    /\ pc = "accept"
    /\ seed_idx = Len(SEED_NODES) + 1
    /\ cur = NoConn
    /\ stack = <<>>
    /\ listening = TRUE
    /\ ret = NoRet
    /\ poisoned = FALSE
    /\ \E R \in SUBSET Peers :
         /\ connections = [p \in R |-> Established(p)]
         /\ IF multi_threaded
            THEN /\ channels = [p \in R |-> <<>>]
                 /\ workers = R
                 /\ mux_conns = {}
            ELSE /\ workers = {}
                 /\ \E received \in SUBSET R :
                      /\ mux_conns = received
                      /\ \E order \in Orderings(R \ received) :
                           channels = (SelfPeerId :>
                               [i \in DOMAIN order |-> AddMessage(order[i])])
    /\ exiting = <<>>
    /\ closed_conns = {}
    /\ DispatchIdle
    /\ called = NoCall
    /\ ConnectionIdle
    /\ CodecIdle

DispatchInit == Running(DispatchPeers)

\* the listener threads: reads from the peers, broadcasts, writes
DispatchNext ==
    \/ \E p \in PeerIds : ListenData(p)
    \/ \E p \in PeerIds : MuxData(p)
    \/ \E t \in PeerIds : BroadcastStep(t)
    \/ \E p \in PeerIds : ThreadRecv(p)
    \/ MuxSend
    \/ MuxRecv
    \/ \E p \in PeerIds : RemoteClose(p)
    \/ \E p \in PeerIds : MuxPoll(p)
    \/ \E p \in PeerIds : ListenRemove(p)
    \/ \E p \in PeerIds : ThreadExit(p)

DispatchSpec == DispatchInit /\ [][DispatchNext]_vars

\* the steps the listener threads take on their own; a read from a socket
\* that the remote side closed returns
FairDispatchSpec ==
    /\ DispatchSpec
    /\ WF_vars(\E t \in PeerIds : BroadcastStep(t))
    /\ WF_vars(\E p \in PeerIds : ThreadRecv(p))
    /\ WF_vars(MuxSend)
    /\ WF_vars(MuxRecv)
    /\ WF_vars(\E p \in remote_closed : MuxPoll(p))
    /\ WF_vars(\E p \in remote_closed : ListenRemove(p))
    /\ WF_vars(\E p \in PeerIds : ThreadExit(p))

\* a thread that holds the write lock calls remove_connection(p); multi
\* threaded, the thread of the removed peer still runs when the call
\* returns and the lock is released
CallRemove(p) ==
    /\ ~poisoned
    /\ NoReader
    /\ remove_connection(p)
    /\ called' = [made |-> TRUE, peer_id |-> p,
                   result |-> remove_connection_returns(p)]
    /\ UNCHANGED <<multi_threaded, mux_conns, pc, seed_idx, cur, stack,
                   listening, ret, poisoned>>
    /\ UNCHANGED <<dispatch_vars, conn_vars, codec_vars>>

RemoveInit == Running(DispatchPeers)

\* calls of remove_connection with any id, and the listener that
\* receives the messages they send
RemoveNext ==
    \/ \E p \in PeerIds : CallRemove(p)
    \/ \E p \in PeerIds : ThreadExit(p)
    \/ MuxRecv

RemoveSpec == RemoveInit /\ [][RemoveNext]_vars

\* a frame as a writer sends it: the length of the payload in 4 bytes,
\* big-endian, then the payload; RawFrame: with any length declared
RawFrame(declared, payload) == to_be_bytes(declared, 4) \o payload
Frame(payload) == RawFrame(Len(payload), payload)

Hash32 == [i \in 1..32 |-> 2]
\* ObjectRequest::Block(hash) and ObjectRequest::Transaction(hash) as
\* packets: the tag, the kind, the hash
ObjectRequestBlock == <<1, 0>> \o Hash32
ObjectRequestTransaction == <<1, 1>> \o Hash32
\* ObjectResponse::NotFound(ObjectRequest::Block(hash)) as a packet: the
\* tag, the variant, the request
ObjectResponseNotFound == <<2, 2, 0>> \o Hash32

\* a well-formed Handshake
Handshake0 ==
    [version |-> <<97>>, node_tag |-> None, network_id |-> [i \in 1..16 |-> 1],
     peer_id |-> 1, local_port |-> 2125, utc_time |-> 0, block_height |-> 2,
     block_top_hash |-> Hash32, peers |-> <<>>]

\* the frames a remote side sends: well-formed ones, one with a trailing
\* byte, an unknown tag, an unknown kind, a payload cut short, a declared
\* length of 0 and one above max_size; responses: not found, a block of
\* one byte, an unknown variant
Frames ==
    {Frame(ObjectRequestBlock),
     Frame(ObjectRequestBlock \o <<0>>),
     Frame(<<0>> \o Handshake_write(Handshake0)),
     Frame(<<9>>),
     Frame(<<1, 5>> \o Hash32),
     Frame(<<1, 0, 2, 2>>),
     RawFrame(0, <<1, 0>>),
     RawFrame(256, <<1, 0, 2>>),
     Frame(ObjectResponseNotFound),
     Frame(<<2, 0, 7>>),
     Frame(<<2, 7>>)}

\* where the remote side closes the socket inside a frame
Cuts == {0, 2, 4, 20}

\* the streams of bytes a remote side sends before it closes the socket
ReadStreams ==
    Frames
    \cup {Take(Frame(ObjectRequestBlock), k) : k \in Cuts}
    \cup {Frame(ObjectRequestBlock) \o Frame(ObjectRequestTransaction)}

\* the stream sent to the Connection that the tasks share
ConnStreams == {Frame(ObjectRequestBlock) \o Frame(<<0, 0>>)}

\* one Connection shared by the tasks, with the totals it has counted so
\* far taken from totals
ConnStart(totals) ==
    /\ ServerNew
    /\ multi_threaded
    /\ DispatchIdle
    /\ called = NoCall
    /\ closed = FALSE
    /\ mailbox = <<>>
    /\ inbox \in ConnStreams
    /\ socket = "open"
    /\ stream_lock = "none"
    /\ tx_lock = "none"
    /\ bytes_in \in totals
    /\ bytes_out \in totals
    /\ tasks = [t \in Tasks |-> NewTask(512, 80)]
    /\ ncalls = 0
    /\ first_close = "none"
    /\ state = Connection_new_state
    /\ CodecIdle

\* one Connection, just created, shared by the tasks
ConnInit == ConnStart({usize(0)})

ConnNext ==
    \E t \in Tasks :
        \/ CallSendBytes(t)
        \/ SendLock(t)
        \/ SendWrite(t)
        \/ CallReadPacket(t)
        \/ ReadLock(t)
        \/ ReadSize(t)
        \/ ReadAll(t)
        \/ DecodeTag
        \/ DecodeObject
        \/ DecodeField
        \/ ReadDecoded(t)
        \/ CallClose(t)
        \/ CloseFlag(t)
        \/ CloseExit(t)
        \/ CloseLock(t)
        \/ CloseShutdown(t)

ConnSpec == ConnInit /\ [][ConnNext]_vars

\* the totals of a Connection that has carried usize::MAX - 1 bytes in
\* each direction
LongUsed == {[USIZE_MAX EXCEPT ![1] = LimbBase - 2]}

\* the same calls on a Connection that has been in use for long
WrapInit == ConnStart(LongUsed)
WrapSpec == WrapInit /\ [][ConnNext]_vars

\* one Connection, just created, on which tasks call read_packet while the
\* remote side sends a stream and closes
ReadInit ==
    /\ ServerNew
    /\ multi_threaded
    /\ DispatchIdle
    /\ called = NoCall
    /\ closed = FALSE
    /\ mailbox = <<>>
    /\ inbox \in ReadStreams
    /\ socket = "open"
    /\ stream_lock = "none"
    /\ tx_lock = "none"
    /\ bytes_in = usize(0)
    /\ bytes_out = usize(0)
    /\ \E buf_len \in ReadBufLens, max_size \in MaxSizes :
         tasks = [t \in Tasks |-> NewTask(buf_len, max_size)]
    /\ ncalls = 0
    /\ first_close = "none"
    /\ state = Connection_new_state
    /\ CodecIdle

\* the one task that calls read_packet here
Readers == {"t1"}

ReadNext ==
    \E t \in Readers :
        \/ CallReadPacket(t)
        \/ ReadLock(t)
        \/ ReadSize(t)
        \/ ReadAll(t)
        \/ DecodeTag
        \/ DecodeObject
        \/ DecodeField
        \/ ReadDecoded(t)

ReadSpec == ReadInit /\ [][ReadNext]_vars

\* the well-formed Handshake values written: versions and tags of 1 and
\* 16 bytes, no tag, 0, 1, 2 and 16 peers
Ipv4Peer == [kind |-> 0, ip |-> <<127, 0, 0, 1>>, port |-> 2125]
Ipv6Peer == [kind |-> 1, ip |-> [i \in 1..16 |-> 1], port |-> 65535]
WellFormedHandshakes ==
    [version : {<<97>>, [i \in 1..16 |-> 97]},
     node_tag : {None, Some(<<97>>), Some([i \in 1..16 |-> 97])},
     network_id : {[i \in 1..16 |-> 1]},
     peer_id : {0, 258},
     local_port : {0, 65535},
     utc_time : {2},
     block_height : {0, 65536},
     block_top_hash : {Hash32},
     peers : {<<>>, <<Ipv4Peer>>, <<Ipv6Peer, Ipv4Peer>>, [i \in 1..16 |-> Ipv4Peer]}]

Zeros(k) == [i \in 1..k |-> 0]
\* the 74 bytes from network_id to block_top_hash with local_port, and
\* the 72 of the layout without it
Fixed74 == Zeros(74)
Fixed72 == Zeros(72)

\* the bytes a remote side sends as its first message: lengths of 0 and
\* 17 for the version, 17 for the tag, 17 peers, strings that are not
\* UTF-8, an unknown address kind, messages cut short, and well-formed
\* messages of both layouts
ReceivedBytes ==
    {<<>>,
     <<0>> \o Zeros(80),
     <<17>> \o [i \in 1..17 |-> 97] \o Zeros(80),
     <<17>> \o [i \in 1..17 |-> 255] \o Zeros(80),
     <<17, 97>>,
     <<1, 97, 17>> \o [i \in 1..17 |-> 97] \o Zeros(80),
     <<1, 97, 17>> \o [i \in 1..17 |-> 255] \o Zeros(80),
     <<1, 97, 2, 255, 255>> \o Zeros(80),
     <<1, 97, 0>> \o Fixed74 \o <<17>> \o Zeros(17 * 7),
     <<1, 97, 0>> \o Fixed74 \o <<1, 2>> \o Zeros(6),
     <<1, 255>> \o Zeros(74),
     <<1, 97, 0>> \o Fixed72 \o <<1, 1, 97>>,
     <<1, 97, 0>> \o Fixed72 \o <<1, 1, 255>>,
     <<1, 97, 0>> \o Fixed72 \o <<17>> \o Zeros(40),
     Take(Handshake_write(Handshake0), 40),
     Handshake_write(Handshake0)}

\* the codec alone: a Handshake value to write and read back, or bytes
\* received, given to Handshake::read and to Handshake::from_bytes
CodecInit ==
    /\ ServerNew
    /\ multi_threaded
    /\ DispatchIdle
    /\ called = NoCall
    /\ ConnectionIdle
    /\ reader = Reader_new(<<>>)
    /\ last_read = NoRead
    /\ decoding = NoDecoding
    /\ \/ \E hs \in WellFormedHandshakes : codec = CodecValue(hs)
       \/ \E data \in ReceivedBytes : codec = CodecData(data)

CodecNext ==
    \/ WriteHandshake
    \/ StartRead
    \/ DecodeField
    \/ FromBytes

CodecSpec == CodecInit /\ [][CodecNext]_vars

\* a Reader on a slice, on which any reads are made
ReaderSlices == SeqsUpTo({0, 1, 2, 255}, 3) \cup {[i \in 1..k |-> 0] : k \in {9, 17, 33, 65}}

ReaderInit ==
    /\ ServerNew
    /\ multi_threaded
    /\ DispatchIdle
    /\ called = NoCall
    /\ ConnectionIdle
    /\ \E bytes \in ReaderSlices : reader = Reader_new(bytes)
    /\ last_read = NoRead
    /\ decoding = NoDecoding
    /\ codec = NoCodec

ReaderNext == \E op \in ReaderOps : ReaderCall(op)

ReaderSpec == ReaderInit /\ [][ReaderNext]_vars

\* the steps a thread takes on its own once they are enabled: the threads
\* of the pool are scheduled by the operating system. AcceptInbound,
\* MuxPoll and ListenRemove wait for a remote to act
FairSpec ==
    /\ Spec
    /\ WF_vars(SeedDial)
    /\ WF_vars(Bind)
    /\ WF_vars(ReadHandshake)
    /\ WF_vars(Reply)
    /\ WF_vars(Register)
    /\ WF_vars(GossipDial)
    /\ WF_vars(Return)
    /\ WF_vars(StartListener)
    /\ WF_vars(MuxRecv)
    /\ WF_vars(\E p \in PeerIds : ThreadExit(p))

\* ------------------------------------------------------------------ claims
\* what the main thread's last step read from the stream
\* the main thread holds a connection that passed verify_handshake
Verified == pc \in {"verified", "replied"}
ReceivedNetworkId == IF Verified THEN cur.network_id ELSE ret.network_id
ReceivedPeerId == IF Verified THEN cur.peer_id ELSE ret.peer_id
Decoded == ReceivedNetworkId # "none"
\* the main thread leaves stream.read with a result
MainReads == pc = "read" /\ pc' # "read"
\* the main thread takes a stream from the listener
MainAccepts == pc = "accept" /\ pc' # "accept"
StreamClosed(r) == r.stream \in {"shutdown", "dropped"}
Max(a, b) == IF a > b THEN a ELSE b

\* C1: in every reachable state the registry holds at most max_peers
\* entries.
C1_RegistryWithinMaxPeers == get_peer_count <= max_peers

\* C2: in every reachable state the registered peer ids are distinct (every
\* entry is filed under the peer id of its connection and add_connection
\* never finds the id present) and the server's own peer id is not a key.
C2_PeerIdsDistinctNotSelf ==
    /\ SelfPeerId \notin DOMAIN connections
    /\ \A p \in DOMAIN connections : connections[p].peer_id = p
    /\ ret.outcome # "PanicPeerIdUsed"

C2_Witness == get_peer_count >= 2

\* C3: in every reachable state no two registered connections have the
\* same remote address.
C3_AddressesDistinct ==
    \A p, q \in DOMAIN connections :
        p # q => connections[p].addr # connections[q].addr

\* C4: a connection enters the registry only in the step that follows its
\* validated handshake: the handshake was read, carries the local network
\* id and a peer id that is neither the server's nor registered, and the
\* entry is that connection; no other step adds or replaces an entry.
C4_RegisteredOnlyAfterValidation ==
    [][/\ \A p \in DOMAIN connections' \ DOMAIN connections :
            /\ Verified
            /\ cur.read
            /\ cur.network_id = NETWORK_ID
            /\ cur.peer_id = p
            /\ p # SelfPeerId
            /\ connections'[p].addr = cur.addr
            /\ connections'[p].out = cur.out
       /\ \A p \in DOMAIN connections' \cap DOMAIN connections :
            connections'[p] = connections[p]]_vars

C4_Witness ==
    \E p \in DOMAIN connections : ~connections[p].out /\ pc = "accept"

\* C5: when the handshake read from a stream carries a network id other
\* than NETWORK_ID, the attempt ends with InvalidNetworkID, the stream is
\* closed and the registry is unchanged.
C5_NetworkMismatchRejected ==
    [][(MainReads /\ Decoded' /\ ReceivedNetworkId' # NETWORK_ID)
         => /\ pc' = "ret"
            /\ ret'.outcome = "InvalidNetworkID"
            /\ StreamClosed(ret')
            /\ connections' = connections]_vars

C5_Witness ==
    pc = "ret" /\ ret.outcome = "InvalidNetworkID" /\ get_peer_count >= 1

\* C6 as claimed: when the handshake read from a stream carries the
\* server's own peer id or a registered one, the attempt ends with
\* PeerIdAlreadyUsed of that id, the stream is closed and the registry is
\* unchanged.
C6_UsedPeerIdRejected_Original ==
    [][(/\ MainReads
        /\ Decoded'
        /\ ReceivedPeerId' \in {SelfPeerId} \cup DOMAIN connections)
         => /\ pc' = "ret"
            /\ ret'.outcome = "PeerIdAlreadyUsed"
            /\ ret'.peer_id = ReceivedPeerId'
            /\ StreamClosed(ret')
            /\ connections' = connections]_vars

\* C6 amended: when the handshake read from a stream carries NETWORK_ID and
\* the server's own peer id or a registered one, the attempt ends with
\* PeerIdAlreadyUsed of that id, the stream is shut down and the registry,
\* the entry of that id included, is unchanged.
C6_UsedPeerIdRejected ==
    [][(/\ MainReads
        /\ Decoded'
        /\ ReceivedNetworkId' = NETWORK_ID
        /\ ReceivedPeerId' \in {SelfPeerId} \cup DOMAIN connections)
         => /\ pc' = "ret"
            /\ ret'.outcome = "PeerIdAlreadyUsed"
            /\ ret'.peer_id = ReceivedPeerId'
            /\ ret'.stream = "shutdown"
            /\ connections' = connections]_vars

C6_Witness ==
    /\ pc = "ret"
    /\ ret.outcome = "PeerIdAlreadyUsed"
    /\ ret.peer_id \in DOMAIN connections

\* C7: when a valid handshake is read from a stream whose remote address is
\* the address of a registered connection, the attempt fails (with
\* PeerAlreadyConnected) and the connection does not go on to registration.
C7_KnownAddressRejected ==
    [][(MainReads /\ is_connected_to_addr(cur.addr))
         => (pc' # "verified" /\ (Decoded' => ret'.outcome # "none"))]_vars

\* C8: when a stream comes in while the registry holds max_peers entries,
\* it is shut down without having been read from and the registry is
\* unchanged.
C8_FullRegistryShutsDown ==
    [][(MainAccepts /\ get_peer_count = max_peers)
         => /\ pc' = "ret"
            /\ ret'.outcome = "MaxPeers"
            /\ ret'.stream = "shutdown"
            /\ ~ret'.read
            /\ connections' = connections]_vars

C8_Witness ==
    pc = "ret" /\ ret.outcome = "MaxPeers" /\ get_peer_count = max_peers

\* the attempt that ended last had passed verify_handshake and the reply:
\* it ended inside add_connection
EndedAfterReply == ret.outcome \in {"PanicPeerIdUsed", "PanicNoChannel"}

\* C9: the server writes its handshake once per connection: on an outgoing
\* connection before it reads, on an incoming one not before the remote's
\* handshake is validated, and never twice; every registered connection
\* got it exactly once.
C9_HandshakeSentOnce ==
    /\ \A p \in DOMAIN connections : connections[p].sent = 1
    /\ pc \in {"read", "verified"} => cur.sent = (IF cur.out THEN 1 ELSE 0)
    /\ pc = "replied" => cur.sent = 1
    /\ pc = "read" => ~cur.read
    /\ ret.sent <= 1
    /\ (ret.outcome # "none" /\ ~ret.out)
         => ret.sent = (IF EndedAfterReply THEN 1 ELSE 0)

C9_Witness ==
    /\ \E p \in DOMAIN connections : connections[p].out
    /\ \E p \in DOMAIN connections : ~connections[p].out

\* what the main thread's last step found when it parsed the peers
ReceivedParseOk == IF Verified THEN cur.parse_ok ELSE ret.parse_ok

\* C10: the peers kept by verify_handshake for dialing are addresses that
\* are not in the registry, and they are at most as many as the free slots
\* (max_peers minus the registry size, none when that is negative).
C10_DialListWithinFreeSlots ==
    Verified =>
        /\ \A i \in 1..Len(cur.peers) : ~is_connected_to_addr(cur.peers[i])
        /\ Len(cur.peers) <= Max(0, max_peers - get_peer_count)

\* C11 as claimed: when a peer address of the handshake read from a stream
\* does not parse, the attempt ends with InvalidPeerAddress, the stream is
\* closed, no peer of that handshake is kept for dialing and the registry
\* is unchanged.
C11_BadPeerAddressRejected_Original ==
    [][(MainReads /\ Decoded' /\ ~ReceivedParseOk')
         => /\ pc' = "ret"
            /\ ret'.outcome = "InvalidPeerAddress"
            /\ StreamClosed(ret')
            /\ stack' = stack
            /\ connections' = connections]_vars

\* C11 amended: when the handshake read from a stream carries NETWORK_ID, a
\* peer id that is neither the server's nor registered, and a peer address
\* that does not parse, the attempt ends with InvalidPeerAddress, the
\* stream is closed, no peer of that handshake is kept for dialing and the
\* registry is unchanged.
C11_BadPeerAddressRejected ==
    [][(/\ MainReads
        /\ Decoded'
        /\ ReceivedNetworkId' = NETWORK_ID
        /\ ReceivedPeerId' \notin {SelfPeerId} \cup DOMAIN connections
        /\ ~ReceivedParseOk')
         => /\ pc' = "ret"
            /\ ret'.outcome = "InvalidPeerAddress"
            /\ StreamClosed(ret')
            /\ stack' = stack
            /\ connections' = connections]_vars

C11_Witness ==
    /\ pc = "ret"
    /\ ret.outcome = "InvalidPeerAddress"
    /\ ~ret.parse_ok
    /\ get_peer_count >= 1

\* C12: every registered connection has State::Success (a connection is
\* created Pending and is marked Success before it is registered and
\* before the peers of its handshake are dialed).
C12_RegisteredIsSuccess ==
    \A p \in DOMAIN connections : connections[p].state = "Success"

\* C13: when the main thread waits for the handshake of an incoming
\* stream whose remote stays silent, the wait eventually ends (the stream
\* is closed with AsyncTimeOut) and the main thread goes back to its
\* accept loop.
C13_SilentInboundTimesOut ==
    (pc = "read" /\ ~cur.out /\ cur.silent) ~> (pc = "accept")

RECURSIVE IsSubseq(_, _)
\* a is b with some elements left out
IsSubseq(a, b) ==
    IF a = <<>> THEN TRUE
    ELSE IF b = <<>> THEN FALSE
    ELSE IF Head(a) = Head(b) THEN IsSubseq(Tail(a), Tail(b))
    ELSE IsSubseq(a, Tail(b))

InSeq(x, q) == \E i \in DOMAIN q : q[i] = x

\* C14: for each peer, the bytes written to its socket are bytes submitted
\* through send_to_peer for it, in the order of their submission, in both
\* modes and whatever the order of the sends to other peers.
C14_WrittenInSubmissionOrder ==
    \A p \in RemotePeerIds : IsSubseq(written[p], submitted[p])

C14_Witness ==
    \E p, q \in DispatchPeers :
        /\ written[p] = <<1, 2>>
        /\ written[q] = <<2, 1>>

\* C15: a broadcast hands its bytes to send_to_peer for every peer in the
\* registry at the time of the call, and a peer for which the send of
\* bytes failed is no longer in the registry.
C15_BroadcastToAllFailedRemoved ==
    /\ \A b \in 1..nbcast : \A q \in DOMAIN connections :
          \/ InSeq(b, submitted[q])
          \/ \E t \in DOMAIN bcast : bcast[t].bytes = b /\ q \in bcast[t].todo
    /\ \A p \in send_failed : p \notin DOMAIN connections

\* C19: remove_connection is idempotent: a call with a registered id
\* removes it and returns true; a call with an id that is not registered
\* (any further call) returns false, sends no message and changes neither
\* the registry nor the channel map.
C19_RemoveIdempotent ==
    [][\A p \in PeerIds :
         (called' # called /\ called'.peer_id = p) =>
            IF p \in DOMAIN connections
            THEN /\ called'.result = TRUE
                 /\ p \notin DOMAIN connections'
                 /\ \A q \in DOMAIN connections \ {p} :
                       q \in DOMAIN connections' /\ connections'[q] = connections[q]
            ELSE /\ called'.result = FALSE
                 /\ connections' = connections
                 /\ channels' = channels]_vars

\* a second call for a peer whose removal the listener has yet to receive
C19_Witness ==
    /\ ~multi_threaded
    /\ called.made
    /\ called.result = FALSE
    /\ InSeq(RemoveMessage(called.peer_id), channels[SelfPeerId])

\* remove_connection takes peer p from the registry in this step
Removes(p) == p \in DOMAIN connections /\ p \notin DOMAIN connections'

\* no task serves peer p: no thread runs for it and the single thread
\* listener does not hold it in its local map
Unserved(p) == p \notin workers /\ p \notin DOMAIN exiting /\ p \notin mux_conns

\* C20: when remove_connection removes a registered peer its connection is
\* closed by the same call, and from then on the connection stays closed
\* and the tasks serving it stop: its thread ends and the single thread
\* listener drops it from its local map.
C20_RemovedPeerNoLongerServed ==
    /\ [][\A p \in DispatchPeers : Removes(p) => p \in closed_conns']_vars
    /\ \A p \in DispatchPeers :
          (p \in closed_conns) ~> (p \in closed_conns /\ Unserved(p))

\* a removed peer, closed, that the single thread listener still holds,
\* and one whose thread has not ended yet
C20_Witness ==
    \E p \in DispatchPeers :
        /\ p \notin DOMAIN connections
        /\ p \in closed_conns
        /\ p \in mux_conns \/ (p \in DOMAIN exiting /\ exiting[p].is_closed)

\* a task that is inside close() called after a close() had returned
ClosingAgain(t) == tasks[t].op = "close" /\ tasks[t].pc # "idle" /\ tasks[t].again

\* C16: close() is idempotent: a call made after a close() has returned
\* leaves the closed flag, the mailbox and the socket as they were and
\* returns what the first call returned.
C16_CloseIdempotent ==
    [][\A t \in Tasks :
         (ClosingAgain(t) /\ tasks'[t] # tasks[t]) =>
            /\ closed' = closed
            /\ mailbox' = mailbox
            /\ socket' = socket
            /\ tasks'[t].pc = "idle" => tasks'[t].result = first_close]_vars

\* a task whose send_bytes returns in this step
SendReturns(t) == tasks[t].pc = "send_write" /\ tasks'[t].pc = "idle"

\* C17: a send_bytes called after close() has returned fails with
\* Disconnected.
C17_NoSendAfterClose ==
    [][\A t \in Tasks :
         (SendReturns(t) /\ tasks[t].again) => tasks'[t].result = "Disconnected"]_vars

\* C18: bytes_in and bytes_out never decrease, whatever send_bytes,
\* read_packet and close do.
C18_CountersMonotonic ==
    [][~Less(bytes_in', bytes_in) /\ ~Less(bytes_out', bytes_out)]_vars

\* C21: a registered peer whose socket the remote side has closed (its
\* reads give 0 bytes, or an error other than WouldBlock) is eventually
\* removed from the registry.
C21_RemoteCloseRemoves ==
    \A p \in DispatchPeers :
        (p \in remote_closed /\ p \in DOMAIN connections) ~> (p \notin DOMAIN connections)

\* a task whose read_packet_size has read the four bytes of the prefix in
\* this step
PrefixRead(t) == tasks[t].pc = "read_size" /\ tasks'[t].got = 4

\* C22: when the length prefix read by read_packet is 0 or greater than
\* max_size, read_packet returns InvalidPacketSize and has taken nothing
\* but the four bytes of the prefix from the socket.
C22_InvalidPacketSize ==
    [][\A t \in Tasks :
         (PrefixRead(t) /\ from_be_bytes(Take(inbox, 4)) \notin 1..tasks[t].max_size) =>
            /\ tasks'[t].pc = "idle"
            /\ tasks'[t].result = "InvalidPacketSize"
            /\ inbox' = Drop(inbox, 4)]_vars

C22_Witness ==
    \E t \in Tasks :
        /\ tasks[t].pc = "idle"
        /\ tasks[t].result = "InvalidPacketSize"
        /\ tasks[t].got = 4
        /\ tasks[t].frame > tasks[t].max_size
        /\ inbox # <<>>

\* a task whose read_packet returns in this step, its packet decoded or
\* refused by the decoder
DecodedReturns(t) == tasks[t].pc = "decode" /\ tasks'[t].pc = "idle"

\* C23 as stated: whenever the decoder consumed fewer bytes than the frame
\* declares, read_packet fails with InvalidPacketNotFullRead, and it
\* succeeds only with the cursor at the length of the frame.
C23_NotFullRead_Original ==
    [][\A t \in Tasks :
         DecodedReturns(t) =>
            /\ total_read(reader) < tasks[t].frame =>
                    tasks'[t].result = "InvalidPacketNotFullRead"
            /\ tasks'[t].result = "Ok" => total_read(reader) = tasks[t].frame]_vars

\* C23: whenever the decoder returned a packet having consumed fewer bytes
\* than the frame declares, read_packet fails with
\* InvalidPacketNotFullRead; an error of the decoder is returned as it
\* is; read_packet succeeds only with the cursor at the length of the
\* frame.
C23_NotFullRead ==
    [][\A t \in Tasks :
         DecodedReturns(t) =>
            /\ (decoding.err = "Ok" /\ total_read(reader) < tasks[t].frame) =>
                    tasks'[t].result = "InvalidPacketNotFullRead"
            /\ decoding.err # "Ok" => tasks'[t].result = decoding.err
            /\ tasks'[t].result = "Ok" =>
                    /\ total_read(reader) = tasks[t].frame
                    /\ tasks[t].frame = Len(tasks[t].bytes)]_vars

C23_Witness ==
    \E t \in Tasks :
        /\ tasks[t].pc = "idle"
        /\ tasks[t].result = "InvalidPacketNotFullRead"
        /\ tasks[t].consumed = 34
        /\ tasks[t].frame = 35

\* a task whose read of the socket, for the prefix or for the payload,
\* returns zero bytes in this step
ZeroRead(t) ==
    /\ tasks[t].pc \in {"read_size", "read_all"}
    /\ tasks'[t] # tasks[t]
    /\ tasks'[t].read = 0

\* C24: a read of the socket that returns zero bytes, in the prefix or in
\* the payload of a frame, makes read_packet return Disconnected, and
\* bytes_in is not changed by that read.
C24_ZeroReadDisconnected ==
    [][\A t \in Tasks :
         ZeroRead(t) =>
            /\ tasks'[t].pc = "idle"
            /\ tasks'[t].result = "Disconnected"
            /\ bytes_in' = bytes_in]_vars

C24_Witness ==
    \E t \in Tasks :
        /\ tasks[t].pc = "idle"
        /\ tasks[t].result = "Disconnected"
        /\ tasks[t].read = 0
        /\ tasks[t].got > 4
        /\ tasks[t].left > 0
        /\ bytes_in = usize(tasks[t].got)

\* well-formed frames, and a stream that begins with frame f
WellFormedFrames ==
    {Frame(ObjectRequestBlock), Frame(ObjectRequestTransaction),
     Frame(<<0>> \o Handshake_write(Handshake0))}
StartsWith(stream, f) == Len(stream) >= Len(f) /\ Take(stream, Len(f)) = f

\* C25: when the stream holds a well-formed frame that fits max_size,
\* however the socket splits its bytes across reads (no read failing),
\* read_packet takes exactly the 4 bytes of the prefix and goes on to read
\* exactly the declared number of payload bytes, each read adding the
\* bytes the socket delivered.
C25_SplitIndependent ==
    [][\A t \in Tasks :
         /\ \A f \in WellFormedFrames :
              (/\ tasks[t].pc = "read_size"
               /\ tasks[t].buf_len >= 4
               /\ Len(f) - 4 <= tasks[t].max_size
               /\ StartsWith(inbox, f)
               /\ tasks'[t].read > 0) =>
                    /\ tasks'[t].pc = "read_all"
                    /\ tasks'[t].got = 4
                    /\ tasks'[t].left = Len(f) - 4
         /\ (tasks[t].pc = "read_all" /\ tasks'[t] # tasks[t] /\ tasks'[t].read > 0) =>
                    /\ tasks'[t].pc \in {"read_all", "decode"}
                    /\ tasks'[t].bytes = tasks[t].bytes \o Take(inbox, tasks'[t].read)
                    /\ tasks'[t].left = tasks[t].left - tasks'[t].read]_vars

\* the bytes a read needs from the slice: a string needs its length byte
\* and as many bytes as that byte says
Needs(rd, op, n) ==
    CASE op \in {"read_bool", "read_u8"} -> 1
      [] op \in {"read_bytes", "read_string_with_size"} -> n
      [] op \in {"read_bytes_32", "read_hash"} -> 32
      [] op = "read_bytes_64" -> 64
      [] op = "read_u16" -> 2
      [] op = "read_u64" -> 8
      [] op = "read_u128" -> 16
      [] op \in {"read_string", "read_optional_string"} ->
            IF size(rd) = 0 THEN 1 ELSE 1 + rd.bytes[rd.total + 1]

\* C29: whatever reads are made on a Reader, its cursor stays between 0
\* and the length of the slice, a read that succeeds moves the cursor by
\* the bytes it needs, and a read that needs more bytes than are left
\* fails with InvalidSize and indexes nothing past the end of the slice.
C29_ReaderCursor ==
    [][LET need == Needs(reader, last_read'.op, last_read'.n)
       IN  /\ reader'.total \in 0..Len(reader'.bytes)
           /\ reader'.bytes = reader.bytes
           /\ last_read'.err = "Ok" => reader'.total = reader.total + need
           /\ need > size(reader) => last_read'.err = "InvalidSize"
           /\ last_read'.err # "panic"]_vars

C29_Witness ==
    /\ last_read.err = "InvalidSize"
    /\ last_read.op = "read_bytes"
    /\ last_read.n <= total_size(reader)
    /\ reader.total > 0
    /\ size(reader) > 0

\* a Handshake value was written and Handshake::read has returned on its
\* bytes
ReadBack == codec.value # <<>> /\ codec.given /\ decoding.step = "done"

\* C26: reading the bytes written by a well-formed Handshake gives a
\* Handshake equal to it in every field, with the cursor of the Reader at
\* the number of bytes written.
C26_HandshakeRoundTrip ==
    ReadBack =>
        /\ decoding.err = "Ok"
        /\ decoding.packet.hs = codec.value
        /\ total_read(reader) = Len(codec.data)

C26_Witness ==
    /\ ReadBack
    /\ decoding.err = "Ok"
    /\ Len(codec.value.version) = 16
    /\ codec.value.node_tag.some
    /\ Len(codec.value.peers) = 16
    /\ total_read(reader) = Len(codec.data)

\* the byte at the cursor of the Reader: the length of the string, or the
\* number of peers, that Handshake::read is about to read
LengthByte == reader.bytes[reader.total + 1]

\* Handshake::read is about to read a version of 0 or more than 16 bytes,
\* a tag of more than 16 bytes, or 17 or more peers
BadLength ==
    /\ decoding.step = "fields"
    /\ size(reader) > 0
    /\ \/ HandshakeFields[decoding.i] = "version" /\ (LengthByte = 0 \/ LengthByte > 16)
       \/ HandshakeFields[decoding.i] = "node_tag" /\ LengthByte > 16
       \/ HandshakeFields[decoding.i] = "peers_len" /\ LengthByte >= 17

\* the string at the cursor is wholly in the slice and is not UTF-8
NotUtf8 ==
    /\ LengthByte <= size(reader) - 1
    /\ ~from_utf8(SubSeq(reader.bytes, reader.total + 2, reader.total + 1 + LengthByte))

\* C27 as stated: a version of 0 or more than 16 bytes, a tag of more
\* than 16 bytes and a count of 17 or more peers each make Handshake::read
\* fail with InvalidSize, and no Handshake is constructed.
C27_InvalidSize_Original ==
    [][(BadLength /\ decoding' # decoding) =>
         /\ decoding'.step = "done"
         /\ decoding'.err = "InvalidSize"
         /\ decoding'.packet = <<>>]_vars

\* C27: a version of 0 or more than 16 bytes, a tag of more than 16 bytes
\* and a count of 17 or more peers each make Handshake::read fail, with
\* InvalidValue when the over-long version or tag is not valid UTF-8 and
\* with InvalidSize otherwise, and no Handshake is constructed.
C27_InvalidSize ==
    [][(BadLength /\ decoding' # decoding) =>
         /\ decoding'.step = "done"
         /\ decoding'.err =
                IF HandshakeFields[decoding.i] # "peers_len" /\ NotUtf8
                THEN "InvalidValue" ELSE "InvalidSize"
         /\ decoding'.packet = <<>>]_vars

C27_Witness ==
    /\ decoding.step = "done"
    /\ decoding.err = "InvalidSize"
    /\ Len(reader.bytes) > 80
    /\ reader.bytes[1] = 17
    /\ total_read(reader) = 18

\* C28: whatever bytes arrive as the first message of a connection,
\* neither Handshake::from_bytes nor Handshake::read panics: each returns
\* a Handshake or an error.
C28_DecodingNeverPanics ==
    /\ codec.old # "panic"
    /\ decoding.err # "panic"

\* C30: the step that registers a verified connection never panics, and
\* when the peer id of the connection is already in the registry it ends
\* with PeerIdAlreadyUsed and the registry is unchanged.
C30_RegisteringNeverPanics ==
    [][Verified =>
         /\ pc' # "dead"
         /\ cur.peer_id \in DOMAIN connections =>
                /\ ret'.outcome = "PeerIdAlreadyUsed"
                /\ connections' = connections]_vars

\* a step of the main thread (the accept and dial loops of start()): the
\* listener threads never move its position
MainThreadStep == pc' # pc

\* C31: the registry is inserted into and removed from only by the main
\* (accept/dial) thread, never by the thread of a peer nor by the
\* single thread listener
C31_RegistryOnlyMainThread ==
    [][connections' # connections => MainThreadStep]_vars

\* verify_handshake gets as far as take(self.get_slots_available()): it
\* returns Ok or the subtraction panics
EvaluatesSlots ==
    /\ MainReads
    /\ pc' = "verified" \/ ret'.outcome = "PanicUnderflow"

\* C32: whenever get_slots_available is evaluated (inside verify_handshake,
\* in particular on an outgoing dial) the registry holds at most max_peers
\* entries, so max_peers - connections.len() does not go below zero
C32_SlotsNeverUnderflow ==
    [][EvaluatesSlots => get_peer_count <= max_peers]_vars

\* C33: in single thread mode the channel keyed by the server's own
\* peer id is in the channel map before the main thread registers its
\* first connection, whatever the interleaving of the main thread with the
\* creation of the channel in start(); the panic 'no channel for single
\* thread' is unreachable
C33_ListenerChannelBeforeRegister ==
    ~multi_threaded =>
        /\ connections # <<>> => SelfPeerId \in DOMAIN channels
        /\ ret.outcome # "PanicNoChannel"

\* the single thread listener has received every message sent to it
InboxDrained ==
    /\ ~multi_threaded
    /\ SelfPeerId \in DOMAIN channels
    /\ channels[SelfPeerId] = <<>>

\* C34: in single thread mode, whenever the channel of the listener is
\* empty and the listener has processed every message, its local map of
\* connections holds exactly the peer ids of the registry
C34_LocalMapEqualsRegistry ==
    InboxDrained => mux_conns = DOMAIN connections

\* the value send_to_peer returns: true in the Some(chan) arm, whether
\* or not chan.send succeeds
send_to_peer_returns(peer_id) ==
    get_channel_for_connection(peer_id) \in DOMAIN channels

\* a thread that holds the lock calls send_to_peer(p, bytes)
CallSend(p) ==
    /\ ~poisoned
    /\ nbcast < MaxBroadcasts
    /\ nbcast' = nbcast + 1
    /\ send_to_peer(p, nbcast + 1)
    /\ called' = [made |-> TRUE, peer_id |-> p,
                   result |-> send_to_peer_returns(p)]
    /\ UNCHANGED <<multi_threaded, connections, mux_conns, pc, seed_idx, cur,
                   stack, listening, ret, poisoned, workers, exiting,
                   closed_conns>>
    /\ UNCHANGED <<bcast, written, send_failed, remote_closed, conn_vars,
                   codec_vars>>

SendInit == Running(DispatchPeers)

\* calls of send_to_peer with any id, the listener threads that receive
\* the messages, and the removals they make
SendNext ==
    \/ \E p \in RemotePeerIds : CallSend(p)
    \/ \E p \in PeerIds : ThreadRecv(p)
    \/ MuxSend
    \/ MuxRecv
    \/ \E p \in PeerIds : MuxPoll(p)
    \/ \E p \in PeerIds : ListenRemove(p)
    \/ \E p \in PeerIds : ThreadExit(p)

SendSpec == SendInit /\ [][SendNext]_vars

\* a call send_to_peer(p, ..) is made in this step
SendCalled(p) ==
    /\ submitted'[p] # submitted[p]
    /\ called'.made
    /\ called'.peer_id = p

\* C35: send_to_peer(peer_id, bytes) returns true only if peer_id is in
\* the registry at the time of the call; otherwise it returns false and
\* enqueues nothing, in both concurrency modes
C35_SendToPeerReturns ==
    [][\A p \in RemotePeerIds : SendCalled(p) =>
         /\ called'.result => p \in DOMAIN connections
         /\ p \notin DOMAIN connections =>
                ~called'.result /\ channels' = channels]_vars

\* what a remote side that stays connected has sent so far: nothing, or
\* the start of a frame
PendingStreams == {<<>>, Take(Frame(ObjectRequestBlock), 6)}

\* one Connection shared by the tasks, with a remote side that has sent
\* less than a frame
PendingInit ==
    /\ ServerNew
    /\ multi_threaded
    /\ DispatchIdle
    /\ called = NoCall
    /\ closed = FALSE
    /\ mailbox = <<>>
    /\ inbox \in PendingStreams
    /\ socket = "open"
    /\ stream_lock = "none"
    /\ tx_lock = "none"
    /\ bytes_in = usize(0)
    /\ bytes_out = usize(0)
    /\ tasks = [t \in Tasks |-> NewTask(512, 80)]
    /\ ncalls = 0
    /\ first_close = "none"
    /\ state = Connection_new_state
    /\ CodecIdle

\* enum State
States == {"Pending", "Handshake", "Success"}

\* Connection::set_state(&mut self, state): the exclusive borrow needs
\* that no call is in progress on the Connection, before or after other
\* calls
SetState(s) ==
    /\ \A t \in Tasks : tasks[t].pc = "idle"
    /\ state' = s
    /\ UNCHANGED <<closed, mailbox, inbox, socket, stream_lock, tx_lock, bytes_in,
                   bytes_out, tasks, ncalls, first_close>>
    /\ UNCHANGED <<server_vars, dispatch_vars, called, codec_vars>>

PendingNext ==
    \/ \E s \in States : SetState(s)
    \/ \E t \in Tasks :
        \/ CallSendBytes(t)
        \/ SendLock(t)
        \/ SendWrite(t)
        \/ CallReadPacket(t)
        \/ ReadLock(t)
        \/ ReadSize(t)
        \/ ReadAll(t)
        \/ CallClose(t)
        \/ CloseFlag(t)
        \/ CloseExit(t)
        \/ CloseLock(t)
        \/ CloseShutdown(t)

PendingSpec == PendingInit /\ [][PendingNext]_vars

\* stream.read(buf).await returns once bytes have arrived
DataArrived == inbox # <<>>

\* every task that is polled goes on: a lock that stays free is taken, a
\* write (the remote side is taken to read what is written to it), a
\* shutdown and a read of bytes that have arrived return. A read with
\* nothing to receive returns only when the remote side closes or the
\* socket fails, which nothing promises
FairPendingSpec ==
    /\ PendingSpec
    /\ \A t \in Tasks :
         /\ WF_vars(SendLock(t))
         /\ WF_vars(SendWrite(t))
         /\ WF_vars(ReadLock(t))
         /\ WF_vars(DataArrived /\ ReadSize(t))
         /\ WF_vars(DataArrived /\ ReadAll(t))
         /\ WF_vars(CloseFlag(t))
         /\ WF_vars(CloseExit(t))
         /\ WF_vars(CloseLock(t))
         /\ WF_vars(CloseShutdown(t))

\* task t is inside a call of op
Inside(t, op) == tasks[t].op = op /\ tasks[t].pc # "idle"

\* C36: a call of send_bytes on a Connection eventually completes, even
\* while a read_packet on the same Connection is pending with no incoming
\* data: the writer is never blocked by the reader that waits for the peer
C36_SendCompletesDespiteReader ==
    \A t \in Tasks : Inside(t, "send_bytes") ~> tasks[t].pc = "idle"

\* C37: a call of close() eventually returns, even while another task is
\* blocked in read_packet or send_bytes on the same Connection: close
\* never waits for ever for the lock of the stream
C37_CloseReturns ==
    \A t \in Tasks : Inside(t, "close") ~> tasks[t].pc = "idle"

\* a turn of the loop of read_all_bytes is taken by task t in this step
ReadAllTurn(t) == tasks[t].pc = "read_all" /\ tasks'[t] # tasks[t]

\* C38: each read of read_all_bytes asks for at most min(buf_len, left)
\* bytes; left never goes below zero; the bytes collected are the bytes of
\* the stream in their order, exactly `left` of them (the declared length
\* of the frame) when it returns successfully; the loop ends as soon as
\* that many bytes were delivered or a read returned zero bytes, and
\* otherwise goes on with less left to read
C38_ReadAllBytesExact ==
    [][\A t \in Tasks :
         ReadAllTurn(t) =>
            /\ tasks'[t].read <= Min(tasks[t].buf_len, tasks[t].left)
            /\ tasks'[t].result # "panic"
            /\ tasks'[t].left >= 0
            /\ tasks'[t].bytes \o inbox' = tasks[t].bytes \o inbox
            /\ tasks'[t].pc = "decode" <=> Len(tasks'[t].bytes) = tasks[t].frame
            /\ tasks'[t].pc = "decode" => tasks'[t].left = 0
            /\ tasks'[t].read = 0 =>
                    tasks'[t].pc = "idle" /\ tasks'[t].result = "Disconnected"
            /\ tasks'[t].pc = "read_all" =>
                    /\ tasks'[t].left > 0
                    /\ tasks'[t].left < tasks[t].left
                    /\ tasks'[t].left + Len(tasks'[t].bytes) = tasks[t].frame]_vars

\* a frame of 34 bytes read with a buffer of 8 bytes, the socket giving
\* the last byte alone
C38_Witness ==
    \E t \in Tasks :
        /\ tasks[t].pc = "decode"
        /\ tasks[t].buf_len = 8
        /\ tasks[t].frame = 34
        /\ tasks[t].bytes = ObjectRequestBlock
        /\ tasks[t].read = 1
        /\ tasks[t].left = 0

\* C39: with one thread per peer, in every state seen outside the write
\* lock of the registry the channel map and the registry have the same
\* keys
C39_ChannelKeysEqualRegistryKeys ==
    multi_threaded => DOMAIN channels = DOMAIN connections

\* two peers registered one after the other, each with its channel
C39_Witness ==
    /\ multi_threaded
    /\ DOMAIN connections = {1, 2}
    /\ DOMAIN channels = {1, 2}
    /\ workers = {1, 2}

\* the loop of the thread of a peer: a message that is neither Exit nor
\* SendBytes reaches the arm that panics with 'Not supported!'
NotSupported(msg) == msg.type \notin {"Exit", "SendBytes"}

\* C40: the channel of the thread of a peer only ever carries SendBytes and
\* Exit: AddConnection and RemoveConnection are never sent to it, so the
\* thread never reaches its 'Not supported!' panic
C40_PeerChannelOnlySendAndExit ==
    multi_threaded =>
        /\ \A p \in DOMAIN channels :
              \A i \in 1..Len(channels[p]) : ~NotSupported(channels[p][i])
        /\ \A p \in DOMAIN exiting :
              \A i \in 1..Len(exiting[p].receiver) :
                  ~NotSupported(exiting[p].receiver[i])

\* two messages wait in the channel of a peer's thread, and a peer that
\* bytes were sent to has since been removed
C40_Witness ==
    /\ multi_threaded
    /\ \E p \in DOMAIN channels : Len(channels[p]) = 2
    /\ \E q \in RemotePeerIds : submitted[q] # <<>> /\ q \notin DOMAIN connections

====
